---- MODULE Spec2Model ----
(***************************************************************************)
(* Inventory manager (CS499 portfolio): the IndexedDB-backed inventory     *)
(* service with its SKU index and write-permission gate, the IndexedDB     *)
(* wrapper it persists through, and the permission manager.                *)
(*                                                                         *)
(* Strings are sequences of one-character strings, so that trim() and      *)
(* toUpperCase() are computed rather than assumed.  Numbers are fixed      *)
(* point: a finite number is its value in hundredths (12.99 is 1299).      *)
(* A service record is referenced from the items array and from the SKU    *)
(* Map; the service never mutates a record object in place, so a record    *)
(* is modelled by its value and "the same object" by equal values.         *)
(***************************************************************************)
EXTENDS Integers, Sequences, FiniteSets, TLC

\* ------------------------------------------------------------------ bounds
\* Ids that makeId may hand out in one run (resetDemoData takes three).
MaxId == 4
MaxLen == 4
MaxKey == 3

\* --------------------------------------------------------------- strings
LowerCase == <<"a","b","c","d","e","f","g","h","i","j","k","l","m",
               "n","o","p","q","r","s","t","u","v","w","x","y","z">>
UpperCase == <<"A","B","C","D","E","F","G","H","I","J","K","L","M",
               "N","O","P","Q","R","S","T","U","V","W","X","Y","Z">>

WhiteSpace == {" "}

ToUpperChar(c) ==
  IF \E i \in DOMAIN LowerCase : LowerCase[i] = c
  THEN UpperCase[CHOOSE i \in DOMAIN LowerCase : LowerCase[i] = c]
  ELSE c

\* String.prototype.toUpperCase
ToUpperCase(s) == [i \in DOMAIN s |-> ToUpperChar(s[i])]

RECURSIVE TrimStart(_)
TrimStart(s) ==
  IF s # <<>> /\ Head(s) \in WhiteSpace THEN TrimStart(Tail(s)) ELSE s

RECURSIVE TrimEnd(_)
TrimEnd(s) ==
  IF s # <<>> /\ s[Len(s)] \in WhiteSpace
  THEN TrimEnd(SubSeq(s, 1, Len(s) - 1)) ELSE s

\* String.prototype.trim
Trim(s) == TrimEnd(TrimStart(s))

\* --------------------------------------------------------------- JS values
\* A draft field is a JS value: a string, a number, NaN, or undefined.
Str(s) == [t |-> "str", s |-> s, n |-> 0]
Num(c) == [t |-> "num", s |-> <<>>, n |-> c]
NaN    == [t |-> "nan", s |-> <<>>, n |-> 0]
Undef  == [t |-> "undef", s |-> <<>>, n |-> 0]

DigitChars == <<"0","1","2","3","4","5","6","7","8","9">>
IsDigit(c) == \E i \in DOMAIN DigitChars : DigitChars[i] = c
DigitVal(c) == (CHOOSE i \in DOMAIN DigitChars : DigitChars[i] = c) - 1
AllDigits(s) == \A i \in DOMAIN s : IsDigit(s[i])

RECURSIVE DigitsVal(_)
DigitsVal(s) ==
  IF s = <<>> THEN 0
  ELSE 10 * DigitsVal(SubSeq(s, 1, Len(s) - 1)) + DigitVal(s[Len(s)])

\* Hundredths denoted by the digits after the decimal point (at most two
\* are kept: the model's inputs have at most two decimals).
FracVal(s) ==
  IF Len(s) = 0 THEN 0
  ELSE IF Len(s) = 1 THEN 10 * DigitVal(s[1])
  ELSE 10 * DigitVal(s[1]) + DigitVal(s[2])

DotPos(s) == IF \E i \in DOMAIN s : s[i] = "."
             THEN CHOOSE i \in DOMAIN s : s[i] = "." /\ \A j \in 1..(i-1) : s[j] # "."
             ELSE 0

\* An unsigned StrDecimalLiteral: digits, optionally a point and digits.
ParseUnsigned(s) ==
  LET p == DotPos(s)
      ip == IF p = 0 THEN s ELSE SubSeq(s, 1, p - 1)
      fp == IF p = 0 THEN <<>> ELSE SubSeq(s, p + 1, Len(s))
  IN IF (ip # <<>> \/ fp # <<>>) /\ AllDigits(ip) /\ AllDigits(fp)
     THEN Num(100 * DigitsVal(ip) + FracVal(fp))
     ELSE NaN

\* Number(string): whitespace is stripped, the empty string is 0, a signed
\* decimal literal is its value, anything else is NaN.
StringToNumber(s) ==
  LET b == Trim(s) IN
  IF b = <<>> THEN Num(0)
  ELSE IF Head(b) = "-"
       THEN LET u == ParseUnsigned(Tail(b))
            IN IF u.t = "num" THEN Num(0 - u.n) ELSE NaN
  ELSE IF Head(b) = "+" THEN ParseUnsigned(Tail(b))
  ELSE ParseUnsigned(b)

\* Number(value)
Number(v) ==
  CASE v.t = "str" -> StringToNumber(v.s)
    [] v.t = "num" -> v
    [] OTHER       -> NaN

IsFinite(n) == n.t = "num"
IsInteger(n) == n.t = "num" /\ n.n % 100 = 0

toNumber_StringsOnly(value) ==
  IF value.t = "str" /\ IsFinite(Number(value)) THEN Number(value) ELSE NaN

\* toNumber
toNumber(value) == LET n == Number(value) IN IF IsFinite(n) THEN n ELSE NaN

normalizeSku_NoUpper(sku) == Trim(sku)

\* normalizeSku
normalizeSku(sku) == ToUpperCase(Trim(sku))

\* (x ?? "") for a string-or-undefined field
OrEmpty(v) == IF v.t = "undef" THEN <<>> ELSE v.s

\* ----------------------------------------------------------------- inputs
\* Draft fields as the form or another caller may supply them.
GoodNames == {Str(<<" ","n">>)}
BadNames  == {Undef, Str(<<" ">>)}
GoodSkus  == {Str(<<" ","a">>), Str(<<"A">>), Str(<<"c","b","-","1","0","0">>)}
BadSkus   == {Undef, Str(<<" ">>)}
GoodQuantities == {Str(<<>>), Str(<<"2">>)}
BadQuantities  == {Str(<<"-","1">>), Str(<<"1",".","5">>), Str(<<"x">>)}
GoodPrices == {Str(<<"1",".","5">>)}
BadPrices  == {Str(<<"-","1">>), Undef}

MkDrafts(ns, ss, qs, ps) ==
  {[name |-> n, sku |-> s, quantity |-> q, price |-> p] :
     n \in ns, s \in ss, q \in qs, p \in ps}

\* The well-formed drafts, and one draft with each malformed field value.
BaseSku == {Str(<<" ","a">>)}
BaseQuantity == {Str(<<"2">>)}
Drafts ==
  MkDrafts(GoodNames, GoodSkus, BaseQuantity, GoodPrices)
  \cup MkDrafts(GoodNames, BaseSku, GoodQuantities, GoodPrices)
  \cup MkDrafts(BadNames, BaseSku, BaseQuantity, GoodPrices)
  \cup MkDrafts(GoodNames, BadSkus, BaseQuantity, GoodPrices)
  \cup MkDrafts(GoodNames, BaseSku, BadQuantities, GoodPrices)
  \cup MkDrafts(GoodNames, BaseSku, BaseQuantity, BadPrices)

NoDraft == [name |-> Undef, sku |-> Undef, quantity |-> Undef, price |-> Undef]

Ids == 1..MaxId
NoId == 0

Pins == {<<"1","2","3","4">>, <<"1","2"," ">>}

Callers == {"ui", "other"}

\* --------------------------------------------------------------- messages
MsgReadOnly   == "Read-only mode. Unlock admin mode to make changes."
MsgName       == "Name is required."
MsgSku        == "SKU is required."
MsgQuantity   == "Quantity must be a non-negative integer."
MsgPrice      == "Price must be a non-negative number."
MsgUnique     == "SKU must be unique."
MsgOK         == "OK"
MsgAdded      == "Item added."
MsgUpdated    == "Item updated."
MsgDeleted    == "Item deleted."
MsgNotFound   == "Item not found."
MsgReset      == "Demo data reset and saved to database."
MsgDbAdd      == "Database rejected this item (possible duplicate SKU)."
MsgDbUpdate   == "Database rejected this update (possible duplicate SKU)."
MsgNone       == ""

\* The spec's error taxonomy, read off the message a result carries.
Kind(message) ==
  CASE message = MsgReadOnly -> "PermissionDenied"
    [] message \in {MsgName, MsgSku, MsgQuantity, MsgPrice, MsgUnique}
                               -> "ValidationError"
    [] message = MsgNotFound   -> "NotFound"
    [] message \in {MsgDbAdd, MsgDbUpdate} -> "PersistenceError"
    [] OTHER -> "None"

\* ---------------------------------------------------------------- records
NoItem == [id |-> NoId, name |-> <<>>, sku |-> <<>>, quantity |-> 0, price |-> 0]

\* A result as the caller observes it: how == "returned" for a resolved
\* promise carrying {ok, message, item?}, "threw" for a rejected promise.
Returned(ok, message, item) ==
  [how |-> "returned", ok |-> ok, message |-> message, item |-> item]
Threw == [how |-> "threw", ok |-> FALSE, message |-> MsgNone, item |-> NoItem]
NoResult == [how |-> "none", ok |-> FALSE, message |-> MsgNone, item |-> NoItem]

\* ------------------------------------------------------------------- Map
EmptyMap == <<>>
MapHas(m, k) == k \in DOMAIN m
MapSet(m, k, v) == [x \in (DOMAIN m) \cup {k} |-> IF x = k THEN v ELSE m[x]]
MapDelete(m, k) == [x \in (DOMAIN m) \ {k} |-> m[x]]

\* Array.prototype.findIndex(i => i.id === id), 1-based, 0 for -1
FindIndex(arr, id) ==
  IF \E i \in DOMAIN arr : arr[i].id = id
  THEN CHOOSE i \in DOMAIN arr : arr[i].id = id /\ \A j \in 1..(i-1) : arr[j].id # id
  ELSE 0

\* Array.prototype.splice(idx, 1)
Splice(arr, idx) == SubSeq(arr, 1, idx - 1) \o SubSeq(arr, idx + 1, Len(arr))

RECURSIVE rebuildIndexFrom(_, _)
rebuildIndexFrom(m, arr) ==
  IF arr = <<>> THEN m
  ELSE rebuildIndexFrom(MapSet(m, normalizeSku(Head(arr).sku), Head(arr)), Tail(arr))

MapClear_Keep(m) == m

\* Map.prototype.clear
MapClear(m) == EmptyMap

\* InventoryService.rebuildIndex: clear, then set every item under its SKU
rebuildIndex(index, arr) == rebuildIndexFrom(MapClear(index), arr)

\* InventoryService.getAll
getAll(arr) == arr

validateDraft_RejectZero(index, draft, existingId) ==
  LET name     == Trim(OrEmpty(draft.name))
      sku      == normalizeSku(Trim(OrEmpty(draft.sku)))
      quantity == toNumber(draft.quantity)
      price    == toNumber(draft.price)
      value    == [id |-> NoId, name |-> name, sku |-> sku,
                   quantity |-> quantity.n, price |-> price.n]
  IN IF name = <<>> THEN Returned(FALSE, MsgName, NoItem)
     ELSE IF sku = <<>> THEN Returned(FALSE, MsgSku, NoItem)
     ELSE IF ~IsInteger(quantity) \/ quantity.n <= 0
          THEN Returned(FALSE, MsgQuantity, NoItem)
     ELSE IF ~IsFinite(price) \/ price.n < 0
          THEN Returned(FALSE, MsgPrice, NoItem)
     ELSE IF MapHas(index, sku) /\ index[sku].id # existingId
          THEN Returned(FALSE, MsgUnique, NoItem)
     ELSE Returned(TRUE, MsgOK, value)

validateDraft_NoUnique(index, draft, existingId) ==
  LET name     == Trim(OrEmpty(draft.name))
      sku      == normalizeSku(Trim(OrEmpty(draft.sku)))
      quantity == toNumber(draft.quantity)
      price    == toNumber(draft.price)
      value    == [id |-> NoId, name |-> name, sku |-> sku,
                   quantity |-> quantity.n, price |-> price.n]
  IN IF name = <<>> THEN Returned(FALSE, MsgName, NoItem)
     ELSE IF sku = <<>> THEN Returned(FALSE, MsgSku, NoItem)
     ELSE IF ~IsInteger(quantity) \/ quantity.n < 0
          THEN Returned(FALSE, MsgQuantity, NoItem)
     ELSE IF ~IsFinite(price) \/ price.n < 0
          THEN Returned(FALSE, MsgPrice, NoItem)
     ELSE Returned(TRUE, MsgOK, value)

validateDraft_NoExclude(index, draft, existingId) ==
  LET name     == Trim(OrEmpty(draft.name))
      sku      == normalizeSku(Trim(OrEmpty(draft.sku)))
      quantity == toNumber(draft.quantity)
      price    == toNumber(draft.price)
      value    == [id |-> NoId, name |-> name, sku |-> sku,
                   quantity |-> quantity.n, price |-> price.n]
  IN IF name = <<>> THEN Returned(FALSE, MsgName, NoItem)
     ELSE IF sku = <<>> THEN Returned(FALSE, MsgSku, NoItem)
     ELSE IF ~IsInteger(quantity) \/ quantity.n < 0
          THEN Returned(FALSE, MsgQuantity, NoItem)
     ELSE IF ~IsFinite(price) \/ price.n < 0
          THEN Returned(FALSE, MsgPrice, NoItem)
     ELSE IF MapHas(index, sku)
          THEN Returned(FALSE, MsgUnique, NoItem)
     ELSE Returned(TRUE, MsgOK, value)

\* InventoryService.validateDraft
validateDraft(index, draft, existingId) ==
  LET name     == Trim(OrEmpty(draft.name))
      skuRaw   == Trim(OrEmpty(draft.sku))
      sku      == normalizeSku(skuRaw)
      quantity == toNumber(draft.quantity)
      price    == toNumber(draft.price)
      value    == [id |-> NoId, name |-> name, sku |-> sku,
                   quantity |-> quantity.n, price |-> price.n]
  IN IF name = <<>> THEN Returned(FALSE, MsgName, NoItem)
     ELSE IF sku = <<>> THEN Returned(FALSE, MsgSku, NoItem)
     ELSE IF ~IsInteger(quantity) \/ quantity.n < 0
          THEN Returned(FALSE, MsgQuantity, NoItem)
     ELSE IF ~IsFinite(price) \/ price.n < 0
          THEN Returned(FALSE, MsgPrice, NoItem)
     ELSE IF MapHas(index, sku) /\ index[sku].id # existingId
          THEN Returned(FALSE, MsgUnique, NoItem)
     ELSE Returned(TRUE, MsgOK, value)

\* The three hard-coded demo records of resetDemoData, with ids k+1..k+3
DemoData(k) ==
  << [id |-> k + 1, name |-> <<"C","o","f","f","e","e"," ","B","e","a","n","s">>,
      sku |-> <<"C","B","-","1","0","0">>, quantity |-> 300, price |-> 1299],
     [id |-> k + 2, name |-> <<"F","i","l","t","e","r","s">>,
      sku |-> <<"F","L","T","-","2","0","0">>, quantity |-> 2500, price |-> 450],
     [id |-> k + 3, name |-> <<"M","u","g","s">>,
      sku |-> <<"M","U","G","-","3","0","0">>, quantity |-> 600, price |-> 800] >>

\* ------------------------------------------------------ IndexedDB (db.js)
\* The object store "items": records keyed by id (keyPath), with a unique
\* index on the sku property.  It is a function from the keys present to
\* the stored records.
EmptyStore == <<>>

StorePut_NoUniqueIndex(st, item) == [ok |-> TRUE, store |-> MapSet(st, item.id, item)]

\* store.put(item): rejected with a ConstraintError when another key holds
\* the same sku; otherwise insert or replace under item.id.
StorePut(st, item) ==
  IF \E k \in DOMAIN st : k # item.id /\ st[k].sku = item.sku
  THEN [ok |-> FALSE, store |-> st]
  ELSE [ok |-> TRUE, store |-> MapSet(st, item.id, item)]

\* store.delete(id): succeeds whether or not the key is present
StoreDelete(st, id) == [ok |-> TRUE, store |-> MapDelete(st, id)]

\* store.getAll(): the records in ascending key order
RECURSIVE StoreGetAllFrom(_, _)
StoreGetAllFrom(st, k) ==
  IF k > MaxId THEN <<>>
  ELSE (IF k \in DOMAIN st THEN <<st[k]>> ELSE <<>>) \o StoreGetAllFrom(st, k + 1)
StoreGetAll(st) == StoreGetAllFrom(st, 1)

\* The puts of clearAndSeed, in order; failAt = n makes the n-th request of
\* the transaction fail for an external reason (request 1 is the clear).
RECURSIVE SeedPuts(_, _, _, _)
SeedPuts(st, arr, n, failAt) ==
  IF arr = <<>> THEN [ok |-> TRUE, store |-> st]
  ELSE IF n = failAt THEN [ok |-> FALSE, store |-> st]
  ELSE LET r == StorePut(st, Head(arr))
       IN IF r.ok THEN SeedPuts(r.store, Tail(arr), n + 1, failAt) ELSE r

\* A request error that nobody cancels aborts the transaction, which
\* undoes every change the transaction made.
TxOutcome(before, r) == IF r.ok THEN r ELSE [ok |-> FALSE, store |-> before]

\* putItem(item): one readwrite transaction with one put
putItem(st, item, fail) ==
  IF fail THEN [ok |-> FALSE, store |-> st]
  ELSE TxOutcome(st, StorePut(st, item))

\* deleteItemById(id): one readwrite transaction with one delete
deleteItemById(st, id, fail) ==
  IF fail THEN [ok |-> FALSE, store |-> st]
  ELSE TxOutcome(st, StoreDelete(st, id))

\* clearAndSeed(items): one readwrite transaction: clear, then one put per
\* item, each awaited in turn
clearAndSeed(st, arr, failAt) ==
  IF failAt = 1 THEN [ok |-> FALSE, store |-> st]
  ELSE TxOutcome(st, SeedPuts(EmptyStore, arr, 2, failAt))

\* getAllItems(): one readonly transaction
getAllItems(st, fail) ==
  IF fail THEN [ok |-> FALSE, value |-> <<>>]
  ELSE [ok |-> TRUE, value |-> StoreGetAll(st)]

\* -------------------------------------------------- permissions.js helpers
NoHash == <<>>

\* sha256(text): a digest that differs for different texts
sha256(text) == <<"sha256", text>>

\* ------------------------------------------------------------------ state
VARIABLES
  items,      \* InventoryService.items
  skuIndex,   \* InventoryService.skuIndex (Map: normalized SKU -> record)
  store,      \* the IndexedDB object store "items" (key -> record)
  adminHash,  \* localStorage[ADMIN_HASH_KEY]
  unlocked,   \* sessionStorage[UNLOCKED_KEY] === "true"
  nextId,     \* number of ids makeId has handed out
  loaded,     \* init() has completed on the current service instance
  calls,      \* per caller: the service call it has made, and where it is
  localItems, \* localStorage[STORAGE_KEY], parsed (Milestone Three service)
  snapshot,   \* the array a caller got from getAll(), as the caller left it
  heap,       \* the arrays allocated around a mergeSort call, by reference
  sortCall,   \* the mergeSort call of the sort caller, and its outcome
  isBusy,     \* InventoryUI.isBusy
  editId,     \* InventoryUI.editId
  uiEvent,    \* what the last save, delete or reset event of the UI did
  permCalls   \* the PermissionManager calls suspended at their await

\* The state of the IndexedDB service and its permissions, of the
\* localStorage service and its caller, and of the sort primitive.
m4Vars   == <<items, skuIndex, store, adminHash, unlocked, nextId, loaded, calls>>
m3Vars   == <<localItems, snapshot>>
sortVars == <<heap, sortCall>>
uiVars   == <<isBusy, editId, uiEvent>>
pmVars   == <<permCalls>>
vars     == <<m4Vars, m3Vars, sortVars, uiVars, pmVars>>

\* The ids of the records of an array
LiveIds(arr) == {arr[i].id : i \in DOMAIN arr}

\* A call of a service method: its arguments, the locals that live across
\* its await, what canWrite() was when it was made, the outcome of its
\* storage request, the result the caller gets, the memory it started
\* from, the records other calls were waiting to have written when it
\* was made, and the order of the steps it took.
IdleCall ==
  [pc |-> "idle", op |-> "none", id |-> NoId, draft |-> NoDraft,
   rec |-> NoItem, idx |-> 0, oldSku |-> <<>>, demo |-> <<>>,
   fetched |-> <<>>, cw |-> FALSE, db |-> "none", result |-> NoResult,
   preItems |-> <<>>, preIndex |-> EmptyMap, pending |-> {}, log |-> <<>>]

\* PermissionManager.isUnlocked
isUnlocked == unlocked

\* PermissionManager.canWrite
canWrite == isUnlocked

\* PermissionManager.hasAdminConfigured
hasAdminConfigured == adminHash # NoHash

requireWritePermission_AlwaysOk(cw) == Returned(TRUE, MsgNone, NoItem)

\* InventoryService.requireWritePermission
requireWritePermission(cw) ==
  IF ~cw THEN Returned(FALSE, MsgReadOnly, NoItem)
  ELSE Returned(TRUE, MsgNone, NoItem)

\* A caller makes a call when it has none in progress.
CanStart(c) == calls[c].pc = "idle"

\* No caller has a call in progress (one caller at a time).
Serial == \A c \in Callers : calls[c].pc = "idle"

\* No call is suspended at its await.
Quiescent == \A c \in Callers : calls[c].pc \in {"idle", "done"}

\* The ids of the records whose putItem has not been served yet
PendingWrites ==
  {calls[d].rec.id : d \in {x \in Callers : calls[x].pc = "await" /\ calls[x].rec # NoItem}}

Begin(c, op, id, draft) ==
  [IdleCall EXCEPT !.op = op, !.id = id, !.draft = draft, !.cw = canWrite,
                   !.preItems = items, !.preIndex = skuIndex,
                   !.pending = PendingWrites]

Finish(call, result, log) ==
  [call EXCEPT !.pc = "done", !.result = result, !.log = log]

Suspend(call, log) == [call EXCEPT !.pc = "await", !.log = log]

Settle(call, ok) ==
  [call EXCEPT !.pc = "settled",
               !.db = IF ok THEN "ack" ELSE "reject",
               !.log = Append(call.log, IF ok THEN "ack" ELSE "reject")]

\* arr[idx] = v on a JS array (1-based idx); writing past the end grows it
ArraySetAt(arr, idx, v) ==
  IF idx <= Len(arr) THEN [arr EXCEPT ![idx] = v]
  ELSE arr \o [i \in 1..(idx - Len(arr)) |-> IF i = idx - Len(arr) THEN v ELSE NoItem]

\* No mergeSort call has been made.
IdleSort == [pc |-> "idle", arr |-> Undef, compare |-> Undef,
             out |-> [how |-> "none"], heapBefore |-> <<>>]

\* No save, delete or reset event has been handled by the UI.
NoEvent == [event |-> "none", called |-> FALSE]

\* No PermissionManager call is suspended.
IdlePermCall == [pc |-> "idle", op |-> "none", pin |-> <<>>, newPin |-> <<>>,
                 stored |-> NoHash, result |-> NoResult]

\* The UI as its constructor leaves it, and no permission call in progress
UiAtRest ==
  /\ isBusy = FALSE /\ editId = NoId /\ uiEvent = NoEvent
  /\ permCalls = [c \in Callers |-> IdlePermCall]

\* What the database of this origin may hold when the page is loaded: it
\* is new, or an earlier visit left a record in it.
PriorRecord == [id |-> 1, name |-> <<"n">>, sku |-> <<"A">>,
                quantity |-> 200, price |-> 150]
PriorStores == {EmptyStore, MapSet(EmptyStore, PriorRecord.id, PriorRecord)}

Init ==
  /\ items = <<>>
  /\ skuIndex = EmptyMap
  /\ store \in PriorStores
  /\ adminHash = NoHash
  /\ unlocked = FALSE
  /\ nextId = Cardinality(DOMAIN store)
  /\ loaded = FALSE
  /\ calls = [c \in Callers |-> IdleCall]
  /\ localItems = <<>> /\ snapshot = <<>>
  /\ heap = <<>> /\ sortCall = IdleSort
  /\ UiAtRest

\* ------------------------------------------------------ InventoryService
\* init(), up to its await of getAllItems()
init(c) ==
  /\ CanStart(c)
  /\ calls' = [calls EXCEPT ![c] = Suspend(Begin(c, "init", NoId, NoDraft), <<"storage">>)]
  /\ UNCHANGED <<items, skuIndex, store, adminHash, unlocked, nextId, loaded>>
  /\ UNCHANGED <<m3Vars, sortVars, uiVars, pmVars>>

\* init() after the await: replace the array, rebuild the index
initResume(c) ==
  /\ calls[c].pc = "settled" /\ calls[c].op = "init"
  /\ IF calls[c].db = "reject"
     THEN /\ calls' = [calls EXCEPT ![c] = Finish(@, Threw, @.log)]
          /\ UNCHANGED <<items, skuIndex, loaded>>
     ELSE /\ items' = calls[c].fetched
          /\ skuIndex' = rebuildIndex(skuIndex, items')
          /\ loaded' = TRUE
          /\ calls' = [calls EXCEPT ![c] =
                         Finish(@, Returned(TRUE, MsgNone, NoItem), Append(@.log, "memory"))]
  /\ UNCHANGED <<store, adminHash, unlocked, nextId>>
  /\ UNCHANGED <<m3Vars, sortVars, uiVars, pmVars>>

addItem_WriteFirst(c, draft) ==
  /\ CanStart(c)
  /\ LET gate == requireWritePermission(canWrite)
         v    == validateDraft(skuIndex, draft, NoId)
         item == [v.item EXCEPT !.id = nextId + 1]
         call == Begin(c, "addItem", NoId, draft)
     IN IF ~gate.ok
        THEN /\ calls' = [calls EXCEPT ![c] = Finish(call, gate, <<"perm">>)]
             /\ UNCHANGED <<nextId, items, skuIndex>>
        ELSE IF ~v.ok
        THEN /\ calls' = [calls EXCEPT ![c] = Finish(call, v, <<"perm", "validate">>)]
             /\ UNCHANGED <<nextId, items, skuIndex>>
        ELSE /\ nextId < MaxId
             /\ nextId' = nextId + 1
             /\ items' = Append(items, item)
             /\ skuIndex' = MapSet(skuIndex, item.sku, item)
             /\ calls' = [calls EXCEPT ![c] =
                            Suspend([call EXCEPT !.rec = item],
                                    <<"perm", "validate", "memory", "storage">>)]
  /\ UNCHANGED <<store, adminHash, unlocked, loaded>>
  /\ UNCHANGED <<m3Vars, sortVars, pmVars>>

\* addItem(draft), up to its await of putItem(item)
\* (the four mutations leave the UI's variables to the handler that calls
\* them, which sets isBusy in the same step)
addItem(c, draft) ==
  /\ CanStart(c)
  /\ LET gate == requireWritePermission(canWrite)
         v    == validateDraft(skuIndex, draft, NoId)
         item == [v.item EXCEPT !.id = nextId + 1]
         call == Begin(c, "addItem", NoId, draft)
     IN IF ~gate.ok
        THEN /\ calls' = [calls EXCEPT ![c] = Finish(call, gate, <<"perm">>)]
             /\ UNCHANGED nextId
        ELSE IF ~v.ok
        THEN /\ calls' = [calls EXCEPT ![c] = Finish(call, v, <<"perm", "validate">>)]
             /\ UNCHANGED nextId
        ELSE /\ nextId < MaxId
             /\ nextId' = nextId + 1
             /\ calls' = [calls EXCEPT ![c] =
                            Suspend([call EXCEPT !.rec = item],
                                    <<"perm", "validate", "storage">>)]
  /\ UNCHANGED <<items, skuIndex, store, adminHash, unlocked, loaded>>
  /\ UNCHANGED <<m3Vars, sortVars, pmVars>>

addItemResume_PushOnReject(c) ==
  /\ calls[c].pc = "settled" /\ calls[c].op = "addItem"
  /\ LET item == calls[c].rec
     IN /\ items' = Append(items, item)
        /\ skuIndex' = MapSet(skuIndex, item.sku, item)
        /\ calls' = [calls EXCEPT ![c] =
                       Finish(@, IF calls[c].db = "reject"
                                 THEN Returned(FALSE, MsgDbAdd, NoItem)
                                 ELSE Returned(TRUE, MsgAdded, item),
                              Append(@.log, "memory"))]
  /\ UNCHANGED <<store, adminHash, unlocked, nextId, loaded>>
  /\ UNCHANGED <<m3Vars, sortVars, uiVars, pmVars>>

\* addItem after the await: the catch branch, or push and index
addItemResume(c) ==
  /\ calls[c].pc = "settled" /\ calls[c].op = "addItem"
  /\ LET item == calls[c].rec
     IN IF calls[c].db = "reject"
        THEN /\ calls' = [calls EXCEPT ![c] =
                            Finish(@, Returned(FALSE, MsgDbAdd, NoItem), @.log)]
             /\ UNCHANGED <<items, skuIndex>>
        ELSE /\ items' = Append(items, item)
             /\ skuIndex' = MapSet(skuIndex, item.sku, item)
             /\ calls' = [calls EXCEPT ![c] =
                            Finish(@, Returned(TRUE, MsgAdded, item), Append(@.log, "memory"))]
  /\ UNCHANGED <<store, adminHash, unlocked, nextId, loaded>>
  /\ UNCHANGED <<m3Vars, sortVars, uiVars, pmVars>>

spreadUpdated_OtherId(old, value) == [value EXCEPT !.id = (old.id % MaxId) + 1]

\* { ...this.items[idx], ...v.value }: the validated value carries name,
\* sku, quantity and price, so the id is the one of the record replaced.
spreadUpdated(old, value) == [value EXCEPT !.id = old.id]

\* updateItem(id, draft), up to its await of putItem(updated)
updateItem(c, id, draft) ==
  /\ CanStart(c)
  /\ LET gate == requireWritePermission(canWrite)
         v    == validateDraft(skuIndex, draft, id)
         idx  == FindIndex(items, id)
         call == Begin(c, "updateItem", id, draft)
     IN IF ~gate.ok
        THEN calls' = [calls EXCEPT ![c] = Finish(call, gate, <<"perm">>)]
        ELSE IF ~v.ok
        THEN calls' = [calls EXCEPT ![c] = Finish(call, v, <<"perm", "validate">>)]
        ELSE IF idx = 0
        THEN calls' = [calls EXCEPT ![c] =
                         Finish(call, Returned(FALSE, MsgNotFound, NoItem),
                                <<"perm", "validate", "find">>)]
        ELSE LET oldSku  == normalizeSku(items[idx].sku)
                 updated == spreadUpdated(items[idx], v.item)
             IN calls' = [calls EXCEPT ![c] =
                            Suspend([call EXCEPT !.idx = idx, !.oldSku = oldSku,
                                                 !.rec = updated],
                                    <<"perm", "validate", "find", "storage">>)]
  /\ UNCHANGED <<items, skuIndex, store, adminHash, unlocked, nextId, loaded>>
  /\ UNCHANGED <<m3Vars, sortVars, pmVars>>

reindexOnUpdate_KeepOld(index, oldSku, updated) ==
  MapSet(index, normalizeSku(updated.sku), updated)

reindexOnUpdate_SetOldKey(index, oldSku, updated) ==
  MapSet(index, oldSku, updated)

\* updateItem's index maintenance: drop the old key if the SKU changed,
\* then set the new key
reindexOnUpdate(index, oldSku, updated) ==
  LET newSku == normalizeSku(updated.sku)
  IN MapSet(IF oldSku # newSku THEN MapDelete(index, oldSku) ELSE index,
            newSku, updated)

\* updateItem after the await: the catch branch, or replace and re-index
updateItemResume(c) ==
  /\ calls[c].pc = "settled" /\ calls[c].op = "updateItem"
  /\ LET updated == calls[c].rec
         oldSku  == calls[c].oldSku
     IN IF calls[c].db = "reject"
        THEN /\ calls' = [calls EXCEPT ![c] =
                            Finish(@, Returned(FALSE, MsgDbUpdate, NoItem), @.log)]
             /\ UNCHANGED <<items, skuIndex>>
        ELSE /\ items' = ArraySetAt(items, calls[c].idx, updated)
             /\ skuIndex' = reindexOnUpdate(skuIndex, oldSku, updated)
             /\ calls' = [calls EXCEPT ![c] =
                            Finish(@, Returned(TRUE, MsgUpdated, updated),
                                   Append(@.log, "memory"))]
  /\ UNCHANGED <<store, adminHash, unlocked, nextId, loaded>>
  /\ UNCHANGED <<m3Vars, sortVars, uiVars, pmVars>>

deleteItem_NoFoundCheck(c, id) ==
  /\ CanStart(c)
  /\ LET gate == requireWritePermission(canWrite)
         idx  == FindIndex(items, id)
         call == Begin(c, "deleteItem", id, NoDraft)
     IN IF ~gate.ok
        THEN calls' = [calls EXCEPT ![c] = Finish(call, gate, <<"perm">>)]
        ELSE calls' = [calls EXCEPT ![c] =
                         Suspend([call EXCEPT !.idx = idx,
                                              !.oldSku = IF idx = 0 THEN <<>>
                                                         ELSE normalizeSku(items[idx].sku)],
                                 <<"perm", "find", "storage">>)]
  /\ UNCHANGED <<items, skuIndex, store, adminHash, unlocked, nextId, loaded>>
  /\ UNCHANGED <<m3Vars, sortVars, pmVars>>

\* deleteItem(id), up to its await of deleteItemById(id)
deleteItem(c, id) ==
  /\ CanStart(c)
  /\ LET gate == requireWritePermission(canWrite)
         idx  == FindIndex(items, id)
         call == Begin(c, "deleteItem", id, NoDraft)
     IN IF ~gate.ok
        THEN calls' = [calls EXCEPT ![c] = Finish(call, gate, <<"perm">>)]
        ELSE IF idx = 0
        THEN calls' = [calls EXCEPT ![c] =
                         Finish(call, Returned(FALSE, MsgNotFound, NoItem),
                                <<"perm", "find">>)]
        ELSE calls' = [calls EXCEPT ![c] =
                         Suspend([call EXCEPT !.idx = idx,
                                              !.oldSku = normalizeSku(items[idx].sku)],
                                 <<"perm", "find", "storage">>)]
  /\ UNCHANGED <<items, skuIndex, store, adminHash, unlocked, nextId, loaded>>
  /\ UNCHANGED <<m3Vars, sortVars, pmVars>>

\* deleteItem after the await: a rejection propagates (no try/catch);
\* otherwise splice and un-index
deleteItemResume(c) ==
  /\ calls[c].pc = "settled" /\ calls[c].op = "deleteItem"
  /\ IF calls[c].db = "reject"
     THEN /\ calls' = [calls EXCEPT ![c] = Finish(@, Threw, @.log)]
          /\ UNCHANGED <<items, skuIndex>>
     ELSE /\ items' = Splice(items, calls[c].idx)
          /\ skuIndex' = MapDelete(skuIndex, calls[c].oldSku)
          /\ calls' = [calls EXCEPT ![c] =
                         Finish(@, Returned(TRUE, MsgDeleted, NoItem),
                                Append(@.log, "memory"))]
  /\ UNCHANGED <<store, adminHash, unlocked, nextId, loaded>>
  /\ UNCHANGED <<m3Vars, sortVars, uiVars, pmVars>>

\* resetDemoData(), up to its await of clearAndSeed(demo)
resetDemoData(c) ==
  /\ CanStart(c)
  /\ LET gate == requireWritePermission(canWrite)
         call == Begin(c, "resetDemoData", NoId, NoDraft)
     IN IF ~gate.ok
        THEN /\ calls' = [calls EXCEPT ![c] = Finish(call, gate, <<"perm">>)]
             /\ UNCHANGED nextId
        ELSE /\ nextId + 3 <= MaxId
             /\ nextId' = nextId + 3
             /\ calls' = [calls EXCEPT ![c] =
                            Suspend([call EXCEPT !.demo = DemoData(nextId)],
                                    <<"perm", "storage">>)]
  /\ UNCHANGED <<items, skuIndex, store, adminHash, unlocked, loaded>>
  /\ UNCHANGED <<m3Vars, sortVars, pmVars>>

resetDemoDataResume_SwapOnReject(c) ==
  /\ calls[c].pc = "settled" /\ calls[c].op = "resetDemoData"
  /\ items' = calls[c].demo
  /\ skuIndex' = rebuildIndex(skuIndex, items')
  /\ calls' = [calls EXCEPT ![c] =
                 Finish(@, Returned(TRUE, MsgReset, NoItem), Append(@.log, "memory"))]
  /\ UNCHANGED <<store, adminHash, unlocked, nextId, loaded>>
  /\ UNCHANGED <<m3Vars, sortVars, uiVars, pmVars>>

\* resetDemoData after the await: a rejection propagates (no try/catch);
\* otherwise swap the array and rebuild the index
resetDemoDataResume(c) ==
  /\ calls[c].pc = "settled" /\ calls[c].op = "resetDemoData"
  /\ IF calls[c].db = "reject"
     THEN /\ calls' = [calls EXCEPT ![c] = Finish(@, Threw, @.log)]
          /\ UNCHANGED <<items, skuIndex>>
     ELSE /\ items' = calls[c].demo
          /\ skuIndex' = rebuildIndex(skuIndex, items')
          /\ calls' = [calls EXCEPT ![c] =
                         Finish(@, Returned(TRUE, MsgReset, NoItem),
                                Append(@.log, "memory"))]
  /\ UNCHANGED <<store, adminHash, unlocked, nextId, loaded>>
  /\ UNCHANGED <<m3Vars, sortVars, uiVars, pmVars>>

\* The caller's continuation takes the result of its call: it runs in the
\* same microtask turn as the end of the call, before any other event.
Return(c) ==
  /\ calls[c].pc = "done"
  /\ calls' = [calls EXCEPT ![c] = IdleCall]
  /\ UNCHANGED <<items, skuIndex, store, adminHash, unlocked, nextId, loaded>>
  /\ UNCHANGED <<m3Vars, sortVars, uiVars, pmVars>>

\* ------------------------------------------- db.js requests being served
\* The database serves the getAllItems() an init() is waiting for.
getAllItemsExec(c) ==
  /\ calls[c].pc = "await" /\ calls[c].op = "init"
  /\ \E fail \in BOOLEAN :
       LET r == getAllItems(store, fail)
       IN calls' = [calls EXCEPT ![c] = Settle([@ EXCEPT !.fetched = r.value], r.ok)]
  /\ UNCHANGED <<items, skuIndex, store, adminHash, unlocked, nextId, loaded>>
  /\ UNCHANGED <<m3Vars, sortVars, uiVars, pmVars>>

\* The database serves the putItem() an addItem/updateItem is waiting for.
putItemExec(c) ==
  /\ calls[c].pc = "await" /\ calls[c].op \in {"addItem", "updateItem"}
  /\ \E fail \in BOOLEAN :
       LET r == putItem(store, calls[c].rec, fail)
       IN /\ store' = r.store
          /\ calls' = [calls EXCEPT ![c] = Settle(@, r.ok)]
  /\ UNCHANGED <<items, skuIndex, adminHash, unlocked, nextId, loaded>>
  /\ UNCHANGED <<m3Vars, sortVars, uiVars, pmVars>>

\* The database serves the deleteItemById() a deleteItem is waiting for.
deleteItemByIdExec(c) ==
  /\ calls[c].pc = "await" /\ calls[c].op = "deleteItem"
  /\ \E fail \in BOOLEAN :
       LET r == deleteItemById(store, calls[c].id, fail)
       IN /\ store' = r.store
          /\ calls' = [calls EXCEPT ![c] = Settle(@, r.ok)]
  /\ UNCHANGED <<items, skuIndex, adminHash, unlocked, nextId, loaded>>
  /\ UNCHANGED <<m3Vars, sortVars, uiVars, pmVars>>

\* The database serves the clearAndSeed() a resetDemoData is waiting for.
clearAndSeedExec(c) ==
  /\ calls[c].pc = "await" /\ calls[c].op = "resetDemoData"
  /\ \E failAt \in 0..(Len(calls[c].demo) + 1) :
       LET r == clearAndSeed(store, calls[c].demo, failAt)
       IN /\ store' = r.store
          /\ calls' = [calls EXCEPT ![c] = Settle(@, r.ok)]
  /\ UNCHANGED <<items, skuIndex, adminHash, unlocked, nextId, loaded>>
  /\ UNCHANGED <<m3Vars, sortVars, uiVars, pmVars>>

\* ----------------------------------------------------- PermissionManager
\* An event handler runs only when no call is between its completion and
\* its caller's continuation.
EventTurn == \A c \in Callers : calls[c].pc # "done"

\* PermissionManager.lock
lock ==
  /\ unlocked' = FALSE
  /\ UNCHANGED <<items, skuIndex, store, adminHash, nextId, loaded, calls>>
  /\ UNCHANGED <<m3Vars, sortVars, uiVars, pmVars>>

\* PermissionManager.setAdminPin
setAdminPin(pin) ==
  /\ LET clean == Trim(pin)
     IN IF Len(clean) < 4
        THEN UNCHANGED <<adminHash, unlocked>>
        ELSE /\ adminHash' = sha256(clean)
             /\ unlocked' = FALSE
  /\ UNCHANGED <<items, skuIndex, store, nextId, loaded, calls>>
  /\ UNCHANGED <<m3Vars, sortVars, uiVars, pmVars>>

\* PermissionManager.unlock
unlock(pin) ==
  /\ LET stored == adminHash
         clean  == Trim(pin)
     IN IF stored = NoHash THEN UNCHANGED unlocked
        ELSE IF sha256(clean) # stored THEN unlocked' = FALSE
        ELSE unlocked' = TRUE
  /\ UNCHANGED <<items, skuIndex, store, adminHash, nextId, loaded, calls>>
  /\ UNCHANGED <<m3Vars, sortVars, uiVars, pmVars>>

\* PermissionManager.changePin
changePin(currentPin, newPin) ==
  /\ LET stored       == adminHash
         currentClean == Trim(currentPin)
         newClean     == Trim(newPin)
     IN IF stored = NoHash THEN UNCHANGED adminHash
        ELSE IF Len(newClean) < 4 THEN UNCHANGED adminHash
        ELSE IF sha256(currentClean) # stored THEN UNCHANGED adminHash
        ELSE adminHash' = sha256(newClean)
  /\ UNCHANGED <<items, skuIndex, store, unlocked, nextId, loaded, calls>>
  /\ UNCHANGED <<m3Vars, sortVars, uiVars, pmVars>>

\* ------------------------------------------------------- specifications
UI == "ui"

\* One caller (the UI event loop), one service call at a time; locking
\* and unlocking may happen at any moment.
Next ==
  \/ Serial /\ init(UI)
  \/ initResume(UI)
  \/ \E d \in Drafts : Serial /\ addItem(UI, d) /\ UNCHANGED uiVars
  \/ addItemResume(UI)
  \/ \E id \in Ids, d \in Drafts : Serial /\ updateItem(UI, id, d) /\ UNCHANGED uiVars
  \/ updateItemResume(UI)
  \/ \E id \in Ids : Serial /\ deleteItem(UI, id) /\ UNCHANGED uiVars
  \/ deleteItemResume(UI)
  \/ Serial /\ resetDemoData(UI) /\ UNCHANGED uiVars
  \/ resetDemoDataResume(UI)
  \/ getAllItemsExec(UI)
  \/ putItemExec(UI)
  \/ deleteItemByIdExec(UI)
  \/ clearAndSeedExec(UI)
  \/ Return(UI)
  \/ EventTurn /\ lock
  \/ \E pin \in Pins : EventTurn /\ setAdminPin(pin)
  \/ \E pin \in Pins : EventTurn /\ unlock(pin)
  \/ \E p \in Pins, q \in Pins : EventTurn /\ changePin(p, q)

Spec == Init /\ [][Next]_vars

\* ============================================================ properties
Mutations == {"addItem", "updateItem", "deleteItem", "resetDemoData"}

Done(c) == calls[c].pc = "done"
DoneMutation(c) == Done(c) /\ calls[c].op \in Mutations

\* The canonical form of a SKU, written out: trimmed, then uppercased.
Canonical(sku) == ToUpperCase(Trim(sku))

LiveSkus(arr) == {Canonical(arr[i].sku) : i \in DOMAIN arr}

StorageCalls(c) == Cardinality({i \in DOMAIN calls[c].log : calls[c].log[i] = "storage"})

MemoryUnchanged(c) == items = calls[c].preItems /\ skuIndex = calls[c].preIndex

\* C1: no two live records of the in-memory collection have the same
\* normalized (trimmed, uppercased) SKU, in every reachable state.
C1_UniqueNormalizedSku ==
  \A i, j \in DOMAIN items :
    i # j => Canonical(items[i].sku) # Canonical(items[j].sku)

\* Two records are live after an add or update went through, and another
\* add or update was refused for its SKU.
C1_Witness ==
  /\ Len(items) >= 2
  /\ Done(UI) /\ calls[UI].op \in {"addItem", "updateItem"}
  /\ calls[UI].result.message = MsgUnique

\* C2: the SKU index and the collection are consistent: one index entry
\* per live record, keyed by the record's normalized SKU and holding that
\* record, and no other entry.
C2_IndexConsistent ==
  /\ DOMAIN skuIndex = LiveSkus(items)
  /\ Cardinality(DOMAIN skuIndex) = Len(items)
  /\ \A i \in DOMAIN items : skuIndex[Canonical(items[i].sku)] = items[i]

\* An update gave a record another SKU while a second record was live.
C2_Witness ==
  /\ Done(UI) /\ calls[UI].op = "updateItem" /\ calls[UI].result.ok
  /\ calls[UI].oldSku # calls[UI].result.item.sku
  /\ Len(items) >= 2

\* C3: a mutation called while canWrite() is false returns the
\* PermissionDenied result, makes no storage call and leaves the
\* collection and the index as they were, whatever the draft and id.
C3_PermissionGate ==
  \A c \in Callers :
    (DoneMutation(c) /\ ~calls[c].cw) =>
      /\ calls[c].result = Returned(FALSE, MsgReadOnly, NoItem)
      /\ Kind(calls[c].result.message) = "PermissionDenied"
      /\ StorageCalls(c) = 0
      /\ calls[c].db = "none"
      /\ MemoryUnchanged(c)

\* A delete of a live record was refused in read-only mode.
C3_Witness ==
  /\ DoneMutation(UI) /\ ~calls[UI].cw
  /\ calls[UI].op = "deleteItem"
  /\ FindIndex(items, calls[UI].id) # 0

\* C4: when the storage call of a mutation rejects, the collection and
\* the index after the call are what they were before it.
C4_PersistenceFailureAtomic ==
  \A c \in Callers :
    (DoneMutation(c) /\ calls[c].db = "reject") => MemoryUnchanged(c)

\* An add whose putItem was rejected has completed, with records live.
C4_Witness ==
  /\ DoneMutation(UI) /\ calls[UI].db = "reject"
  /\ calls[UI].op = "addItem"
  /\ Len(items) >= 1

\* C5: when the storage call rejects, every mutation returns a failure
\* result {ok: false, message} (a PersistenceError); none leaves its
\* promise rejected.
C5_UniformFailureResult ==
  \A c \in Callers :
    (DoneMutation(c) /\ calls[c].db = "reject") =>
      /\ calls[c].result.how = "returned"
      /\ calls[c].result.ok = FALSE
      /\ Kind(calls[c].result.message) = "PersistenceError"

\* Position of the first occurrence of step e in a call's log, 0 if absent
Pos(log, e) ==
  IF \E i \in DOMAIN log : log[i] = e
  THEN CHOOSE i \in DOMAIN log : log[i] = e /\ \A j \in 1..(i-1) : log[j] # e
  ELSE 0

Before(log, a, b) == Pos(log, a) # 0 /\ Pos(log, a) < Pos(log, b)

Failed(c) == calls[c].result.how = "threw" \/ ~calls[c].result.ok

\* What getAll() must show once the mutation of call c has succeeded
Reflects(c) ==
  LET k == calls[c] IN
  CASE k.op = "addItem" ->
         /\ getAll(items) = Append(k.preItems, k.result.item)
         /\ k.result.item = k.rec
    [] k.op = "updateItem" ->
         /\ Len(getAll(items)) = Len(k.preItems)
         /\ \E i \in DOMAIN items :
              /\ k.preItems[i].id = k.id
              /\ items[i] = k.result.item
              /\ \A j \in DOMAIN items : j # i => items[j] = k.preItems[j]
    [] k.op = "deleteItem" ->
         /\ \A i \in DOMAIN items : items[i].id # k.id
         /\ Len(getAll(items)) = Len(k.preItems) - 1
    [] k.op = "resetDemoData" -> getAll(items) = k.demo
    [] OTHER -> TRUE

\* C6: in every mutation the permission check, the validation and the
\* search for the id come before the storage call, memory is written only
\* after the storage call was acknowledged; so with a success result
\* getAll() shows the mutation, and with a failure memory shows none of it.
C6_OrderingGuarantee ==
  \A c \in Callers :
    LET k == calls[c] IN
    k.op \in Mutations =>
      /\ Pos(k.log, "storage") # 0 =>
           /\ Before(k.log, "perm", "storage")
           /\ k.cw
           /\ k.op \in {"addItem", "updateItem"} => Before(k.log, "validate", "storage")
           /\ k.op \in {"updateItem", "deleteItem"} => Before(k.log, "find", "storage")
      /\ Pos(k.log, "memory") # 0 =>
           /\ Before(k.log, "storage", "ack")
           /\ Before(k.log, "ack", "memory")
      /\ k.pc \in {"await", "settled"} => MemoryUnchanged(c)
      /\ (Done(c) /\ ~Failed(c)) => (Pos(k.log, "memory") # 0 /\ Reflects(c))
      /\ (Done(c) /\ Failed(c)) => (Pos(k.log, "memory") = 0 /\ MemoryUnchanged(c))

\* An update of one of two live records has succeeded.
C6_Witness ==
  /\ DoneMutation(UI) /\ calls[UI].op = "updateItem" /\ calls[UI].result.ok
  /\ Len(items) >= 2
  /\ items # calls[UI].preItems

StoreRecords == {store[k] : k \in DOMAIN store}
MemoryRecords == {items[i] : i \in DOMAIN items}

\* C7: once init() has completed, whenever no operation is in progress the
\* collection holds exactly the records of the store.
C7_MemoryMatchesStore ==
  (loaded /\ Quiescent) =>
     /\ MemoryRecords = StoreRecords
     /\ Len(items) = Cardinality(DOMAIN store)

\* After init() loaded a record, a reset to demo data failed in its
\* clearAndSeed.
C7_Witness ==
  /\ loaded /\ Done(UI) /\ calls[UI].op = "resetDemoData"
  /\ calls[UI].db = "reject"
  /\ Len(items) >= 1

\* A draft the data model accepts: non-empty trimmed name, non-empty SKU,
\* non-negative integer quantity, non-negative finite price.
ValidDraft(d) ==
  /\ Trim(OrEmpty(d.name)) # <<>>
  /\ Canonical(OrEmpty(d.sku)) # <<>>
  /\ Number(d.quantity).t = "num" /\ Number(d.quantity).n % 100 = 0
  /\ Number(d.quantity).n >= 0
  /\ Number(d.price).t = "num" /\ Number(d.price).n >= 0

\* C8: with write permission and storage accepting, addItem of a valid
\* draft whose normalized SKU no live record carries succeeds, the
\* collection grows by that one record, and the index gets exactly one
\* entry for the normalized SKU, holding the new record.
C8_AddValidDraft ==
  \A c \in Callers :
    LET k == calls[c]
        sku == Canonical(OrEmpty(k.draft.sku))
    IN (Done(c) /\ k.op = "addItem" /\ k.cw /\ ValidDraft(k.draft)
          /\ sku \notin LiveSkus(k.preItems) /\ k.db # "reject") =>
         /\ k.result.how = "returned" /\ k.result.ok
         /\ Len(items) = Len(k.preItems) + 1
         /\ items = Append(k.preItems, k.result.item)
         /\ k.result.item.sku = sku
         /\ k.result.item.name = Trim(OrEmpty(k.draft.name))
         /\ k.result.item.quantity = Number(k.draft.quantity).n
         /\ k.result.item.price = Number(k.draft.price).n
         /\ sku \notin DOMAIN k.preIndex
         /\ skuIndex = MapSet(k.preIndex, sku, k.result.item)
         /\ Cardinality({x \in DOMAIN skuIndex : Canonical(x) = sku}) = 1

\* An add of a draft with an empty quantity (zero) went through while
\* another record was live.
C8_Witness ==
  /\ Done(UI) /\ calls[UI].op = "addItem" /\ calls[UI].result.ok
  /\ calls[UI].draft.quantity = Str(<<>>)
  /\ Len(calls[UI].preItems) >= 1

\* The draft of call c carries the SKU of a live record other than the
\* one being updated (any live record, for an add).
Collides(c) ==
  \E i \in DOMAIN calls[c].preItems :
    /\ Canonical(calls[c].preItems[i].sku) = Canonical(OrEmpty(calls[c].draft.sku))
    /\ calls[c].preItems[i].id # calls[c].id

\* C9 as stated: every addItem or updateItem whose draft collides with
\* another live record's SKU fails with a ValidationError, makes no
\* storage call and changes nothing.
C9_CollisionAlwaysValidationError ==
  \A c \in Callers :
    (Done(c) /\ calls[c].op \in {"addItem", "updateItem"} /\ Collides(c)) =>
      /\ calls[c].result.how = "returned" /\ ~calls[c].result.ok
      /\ Kind(calls[c].result.message) = "ValidationError"
      /\ StorageCalls(c) = 0
      /\ MemoryUnchanged(c)

\* C9 amended: with write permission granted, every addItem or updateItem
\* whose draft collides with another live record's SKU (case and
\* surrounding whitespace ignored) fails with a ValidationError, the
\* SKU-not-unique one when the draft is otherwise valid, makes no storage
\* call and changes nothing.
C9_CollisionRejectedWhenUnlocked ==
  \A c \in Callers :
    (Done(c) /\ calls[c].op \in {"addItem", "updateItem"} /\ Collides(c)
       /\ calls[c].cw) =>
      /\ calls[c].result.how = "returned" /\ ~calls[c].result.ok
      /\ Kind(calls[c].result.message) = "ValidationError"
      /\ ValidDraft(calls[c].draft) => calls[c].result.message = MsgUnique
      /\ StorageCalls(c) = 0
      /\ calls[c].db = "none"
      /\ MemoryUnchanged(c)

\* An update tried to give a record the SKU of another live record, in a
\* spelling that differs from the stored one.
C9_Witness ==
  /\ Done(UI) /\ calls[UI].op = "updateItem" /\ calls[UI].cw /\ Collides(UI)
  /\ FindIndex(calls[UI].preItems, calls[UI].id) # 0
  /\ \A i \in DOMAIN items : items[i].sku # OrEmpty(calls[UI].draft.sku)

\* C10: after a successful updateItem that changes the record's normalized
\* SKU from A to B, the index has no entry for A, exactly one for B, which
\* holds the record with the updated id, and every other entry is as before.
C10_RenameConsistency ==
  \A c \in Callers :
    LET k == calls[c]
        A == k.oldSku
        B == Canonical(OrEmpty(k.draft.sku))
    IN (Done(c) /\ k.op = "updateItem" /\ k.result.how = "returned" /\ k.result.ok
          /\ A # B) =>
         /\ A = Canonical(k.preItems[FindIndex(k.preItems, k.id)].sku)
         /\ A \notin DOMAIN skuIndex
         /\ B \in DOMAIN skuIndex
         /\ Cardinality({x \in DOMAIN skuIndex : Canonical(x) = B}) = 1
         /\ skuIndex[B].id = k.id
         /\ skuIndex[B] = items[FindIndex(items, k.id)]
         /\ DOMAIN skuIndex = (DOMAIN k.preIndex \ {A}) \cup {B}
         /\ \A x \in DOMAIN skuIndex \ {B} : skuIndex[x] = k.preIndex[x]

\* A rename succeeded while other records were indexed.
C10_Witness ==
  /\ Done(UI) /\ calls[UI].op = "updateItem" /\ calls[UI].result.ok
  /\ calls[UI].oldSku # calls[UI].result.item.sku
  /\ Cardinality(DOMAIN skuIndex) >= 3

\* C11: with write permission, deleteItem(id), and updateItem(id, draft)
\* with a draft that passes validation, called with an id no live record
\* has, return the NotFound result, make no storage call and leave the
\* collection, its length and the index unchanged.
C11_NotFound ==
  \A c \in Callers :
    LET k == calls[c] IN
    (Done(c) /\ k.op \in {"deleteItem", "updateItem"} /\ k.cw
       /\ (\A i \in DOMAIN k.preItems : k.preItems[i].id # k.id)
       /\ (k.op = "updateItem" => validateDraft(k.preIndex, k.draft, k.id).ok)) =>
      /\ k.result = Returned(FALSE, MsgNotFound, NoItem)
      /\ Kind(k.result.message) = "NotFound"
      /\ StorageCalls(c) = 0
      /\ k.db = "none"
      /\ Len(items) = Len(k.preItems)
      /\ MemoryUnchanged(c)

\* A delete named an id that none of the live records has.
C11_Witness ==
  /\ Done(UI) /\ calls[UI].op = "deleteItem" /\ calls[UI].cw
  /\ Len(items) >= 1
  /\ \A i \in DOMAIN items : items[i].id # calls[UI].id

\* The normalized tuple of an accepted draft, handed back as a draft:
\* name and sku are strings, quantity and price are numbers.
AsDraft(value) ==
  [name |-> Str(value.name), sku |-> Str(value.sku),
   quantity |-> Num(value.quantity), price |-> Num(value.price)]

\* C20: whenever addItem or updateItem has validated a draft (against the
\* index of that moment, excluding the id the call names) and validateDraft
\* accepted it, validateDraft applied to the returned normalized tuple, in
\* the same state and with the same excludeId, accepts and returns that
\* same tuple.
C20_ValidateDraftIdempotent ==
  \A c \in Callers :
    LET k == calls[c]
        v == validateDraft(k.preIndex, k.draft, k.id)
    IN (Done(c) /\ k.op \in {"addItem", "updateItem"} /\ k.cw /\ v.ok) =>
         validateDraft(k.preIndex, AsDraft(v.item), k.id) = v

\* An update was accepted whose draft differs from its normalized tuple
\* and whose SKU is held by the updated record itself.
C20_Witness ==
  LET k == calls[UI]
      v == validateDraft(k.preIndex, k.draft, k.id)
  IN /\ Done(UI) /\ k.op = "updateItem" /\ k.result.ok
     /\ v.ok /\ AsDraft(v.item) # k.draft
     /\ MapHas(k.preIndex, v.item.sku)

\* The ids makeId has handed out to the call in progress of a caller
MadeBy(c) ==
  IF calls[c].pc \notin {"await", "settled"} THEN {}
  ELSE IF calls[c].op = "addItem" THEN {calls[c].rec.id}
  ELSE IF calls[c].op = "resetDemoData" THEN LiveIds(calls[c].demo)
  ELSE {}

\* The ids handed out earlier that no record holds any more: not live,
\* not persisted, not held by a call in progress. The id of a record that
\* was deleted or replaced by a reset is one of them from then on.
SpentIds ==
  (1..nextId) \ (LiveIds(items) \cup DOMAIN store \cup UNION {MadeBy(c) : c \in Callers})

IdsDistinctAndKept ==
  /\ \A i, j \in DOMAIN items : i # j => items[i].id # items[j].id
  /\ LiveIds(items) \subseteq 1..nextId
  /\ \A c \in Callers :
       LET k == calls[c] IN
       (Done(c) /\ k.op = "updateItem" /\ k.result.how = "returned" /\ k.result.ok) =>
         /\ k.result.item.id = k.id
         /\ \E i \in DOMAIN items : items[i] = k.result.item
         /\ LiveIds(items) = LiveIds(k.preItems)

NoSpentIdEnters ==
  /\ nextId' >= nextId
  /\ SpentIds \subseteq SpentIds'
  /\ \A i \in DOMAIN items' :
       items'[i].id \notin LiveIds(items) => items'[i].id \notin SpentIds

\* C13: all live records have pairwise distinct ids; a successful
\* updateItem(id, draft) returns and keeps in memory a record whose id is
\* id, leaving the set of live ids as it was; and in no step does a record
\* enter the collection under an id that was handed out earlier and that
\* no record holds any more, the ids of deleted records and of records
\* replaced by a reset staying among those for good.
C13_IdsUniquePermanent == []IdsDistinctAndKept /\ [][NoSpentIdEnters]_vars

\* A reset replaced live records by new ones: the old ids are spent.
C13_Witness ==
  /\ Done(UI) /\ calls[UI].op = "resetDemoData"
  /\ calls[UI].result.how = "returned" /\ calls[UI].result.ok
  /\ calls[UI].preItems # <<>>
  /\ LiveIds(calls[UI].preItems) \subseteq SpentIds
  /\ Len(items) >= 1

\* ------------------------------------ the Milestone Three service (sync)
\* ------------------------------------------------------------------ C25
\* The draft of an update call names the SKU its own record carries.
KeepsOwnSku(c) ==
  LET k   == calls[c]
      idx == FindIndex(k.preItems, k.id)
  IN /\ idx # 0
     /\ Canonical(k.preItems[idx].sku) = Canonical(OrEmpty(k.draft.sku))

\* C25: with write permission and storage accepting, updateItem(id, draft)
\* on a live record succeeds whenever the draft's other fields are valid
\* and its normalized SKU is that record's own; the collection keeps its
\* length, the record keeps its position and id, its name, quantity and
\* price are the normalized draft values, and the index still has exactly
\* one entry for that SKU.
C25_UpdateKeepingOwnSku ==
  \A c \in Callers :
    LET k   == calls[c]
        idx == FindIndex(k.preItems, k.id)
        sku == Canonical(OrEmpty(k.draft.sku))
    IN (Done(c) /\ k.op = "updateItem" /\ k.cw /\ ValidDraft(k.draft)
          /\ KeepsOwnSku(c) /\ k.db # "reject") =>
         /\ k.result.how = "returned" /\ k.result.ok
         /\ Len(items) = Len(k.preItems)
         /\ \A i \in DOMAIN items : i # idx => items[i] = k.preItems[i]
         /\ items[idx].id = k.id
         /\ items[idx].sku = sku
         /\ items[idx].name = Trim(OrEmpty(k.draft.name))
         /\ items[idx].quantity = Number(k.draft.quantity).n
         /\ items[idx].price = Number(k.draft.price).n
         /\ Cardinality({x \in DOMAIN skuIndex : Canonical(x) = sku}) = 1
         /\ skuIndex[sku] = items[idx]
         /\ DOMAIN skuIndex = DOMAIN k.preIndex

\* An update that kept its record's SKU, written in another case, and
\* changed its name went through while a second record was live.
C25_Witness ==
  \E c \in Callers :
    /\ Done(c) /\ calls[c].op = "updateItem" /\ calls[c].cw
    /\ ValidDraft(calls[c].draft) /\ KeepsOwnSku(c) /\ calls[c].db = "ack"
    /\ calls[c].result.ok
    /\ Len(items) >= 2
    /\ LET idx == FindIndex(calls[c].preItems, calls[c].id)
       IN /\ items[idx].name # calls[c].preItems[idx].name
          /\ OrEmpty(calls[c].draft.sku) # calls[c].preItems[idx].sku

\* ------------------------------------------------------------------ C28
\* A step of init(), which loads the collection whatever the permission
\* state is.
LoadStep == \E c \in Callers : calls[c].op = "init" /\ calls[c].pc # "idle"

\* C28: in every state in which the permission state is Locked, no step
\* (the load of init() aside) changes the store, the in-memory collection
\* or the SKU index, also when lock() is invoked while a mutation that
\* passed its permission check is suspended awaiting storage.
C28_NoChangeWhileLocked ==
  [][(~canWrite /\ ~LoadStep) => UNCHANGED <<store, items, skuIndex>>]_vars

\* The service that keeps its array in localStorage: no permissions, no
\* awaits, and the SKU lookup getBySku. It has the same fields items and
\* skuIndex; its storage is localItems.

\* loadFromStorage: the array JSON.parse gives back, [] when the key is
\* absent (records hold strings and numbers only, which JSON keeps)
loadFromStorage(raw) == raw

\* saveToStorage
saveToStorage(arr) == arr

\* What an earlier visit may have left under STORAGE_KEY
PriorLocalItems == {<<>>, <<PriorRecord>>}

getBySku_NoNormalize(index, sku) ==
  IF MapHas(index, sku) THEN index[sku] ELSE NoItem

\* InventoryService.getBySku; null is NoItem
getBySku(index, sku) ==
  LET key == normalizeSku(sku)
  IN IF MapHas(index, key) THEN index[key] ELSE NoItem

\* The SKUs looked up: other spellings of SKUs the drafts and the demo
\* data use, one no record has, and the empty string.
LookupSkus ==
  { <<"C","B","-","1","0","0">>, <<"c","b","-","1","0","0"," ">>,
    <<"a">>, <<" ","A"," ">>, <<"z">>, <<>> }

\* A call that returned undefined
ReturnedUndefined == [how |-> "undefined"]

\* new InventoryService(): load, then rebuild the index
InitM3 ==
  /\ localItems \in PriorLocalItems
  /\ items = loadFromStorage(localItems)
  /\ skuIndex = rebuildIndex(EmptyMap, items)
  /\ nextId = Len(localItems)
  /\ store = EmptyStore /\ adminHash = NoHash /\ unlocked = FALSE
  /\ loaded = TRUE
  /\ calls = [c \in Callers |-> IdleCall]
  /\ snapshot = <<>>
  /\ heap = <<>> /\ sortCall = IdleSort
  /\ UiAtRest

\* addItem(draft) of the Milestone Three service
addItemM3(c, draft) ==
  /\ CanStart(c)
  /\ LET v    == validateDraft(skuIndex, draft, NoId)
         item == [v.item EXCEPT !.id = nextId + 1]
         call == Begin(c, "addItem", NoId, draft)
     IN IF ~v.ok
        THEN /\ calls' = [calls EXCEPT ![c] = Finish(call, v, <<"validate">>)]
             /\ UNCHANGED <<items, skuIndex, localItems, nextId>>
        ELSE /\ nextId < MaxId
             /\ nextId' = nextId + 1
             /\ items' = Append(items, item)
             /\ skuIndex' = MapSet(skuIndex, item.sku, item)
             /\ localItems' = saveToStorage(items')
             /\ calls' = [calls EXCEPT ![c] =
                            Finish(call, Returned(TRUE, MsgAdded, item),
                                   <<"validate", "memory", "storage">>)]
  /\ UNCHANGED <<store, adminHash, unlocked, loaded, snapshot, sortVars, uiVars, pmVars>>

\* updateItem(id, draft) of the Milestone Three service
updateItemM3(c, id, draft) ==
  /\ CanStart(c)
  /\ LET v    == validateDraft(skuIndex, draft, id)
         idx  == FindIndex(items, id)
         call == Begin(c, "updateItem", id, draft)
     IN IF ~v.ok
        THEN /\ calls' = [calls EXCEPT ![c] = Finish(call, v, <<"validate">>)]
             /\ UNCHANGED <<items, skuIndex, localItems>>
        ELSE IF idx = 0
        THEN /\ calls' = [calls EXCEPT ![c] =
                            Finish(call, Returned(FALSE, MsgNotFound, NoItem),
                                   <<"validate", "find">>)]
             /\ UNCHANGED <<items, skuIndex, localItems>>
        ELSE LET oldSku  == normalizeSku(items[idx].sku)
                 updated == spreadUpdated(items[idx], v.item)
             IN /\ items' = [items EXCEPT ![idx] = updated]
                /\ skuIndex' = reindexOnUpdate(skuIndex, oldSku, updated)
                /\ localItems' = saveToStorage(items')
                /\ calls' = [calls EXCEPT ![c] =
                               Finish(call, Returned(TRUE, MsgUpdated, updated),
                                      <<"validate", "find", "memory", "storage">>)]
  /\ UNCHANGED <<store, adminHash, unlocked, nextId, loaded, snapshot,
                 sortVars, uiVars, pmVars>>

\* deleteItem(id) of the Milestone Three service
deleteItemM3(c, id) ==
  /\ CanStart(c)
  /\ LET idx  == FindIndex(items, id)
         call == Begin(c, "deleteItem", id, NoDraft)
     IN IF idx = 0
        THEN /\ calls' = [calls EXCEPT ![c] =
                            Finish(call, Returned(FALSE, MsgNotFound, NoItem),
                                   <<"find">>)]
             /\ UNCHANGED <<items, skuIndex, localItems>>
        ELSE /\ items' = Splice(items, idx)
             /\ skuIndex' = MapDelete(skuIndex, normalizeSku(items[idx].sku))
             /\ localItems' = saveToStorage(items')
             /\ calls' = [calls EXCEPT ![c] =
                            Finish(call, Returned(TRUE, MsgDeleted, NoItem),
                                   <<"find", "memory", "storage">>)]
  /\ UNCHANGED <<store, adminHash, unlocked, nextId, loaded, snapshot, sortVars, uiVars, pmVars>>

\* resetDemoData() of the Milestone Three service
resetDemoDataM3(c) ==
  /\ CanStart(c)
  /\ nextId + 3 <= MaxId
  /\ nextId' = nextId + 3
  /\ items' = DemoData(nextId)
  /\ skuIndex' = rebuildIndex(skuIndex, items')
  /\ localItems' = saveToStorage(items')
  /\ calls' = [calls EXCEPT ![c] =
                 Finish(Begin(c, "resetDemoData", NoId, NoDraft), ReturnedUndefined,
                        <<"memory", "storage">>)]
  /\ UNCHANGED <<store, adminHash, unlocked, loaded, snapshot, sortVars, uiVars, pmVars>>

\* A caller looks a SKU up with getBySku(sku).
lookupBySku(c, sku) ==
  /\ CanStart(c)
  /\ calls' = [calls EXCEPT ![c] =
                 Finish(Begin(c, "getBySku", NoId, [NoDraft EXCEPT !.sku = Str(sku)]),
                        Returned(TRUE, MsgNone, getBySku(skuIndex, sku)), <<"index">>)]
  /\ UNCHANGED <<items, skuIndex, store, adminHash, unlocked, nextId, loaded, m3Vars, sortVars, uiVars, pmVars>>

\* One caller, one synchronous call at a time.
NextM3 ==
  \/ \E d \in Drafts : addItemM3(UI, d)
  \/ \E id \in Ids, d \in Drafts : updateItemM3(UI, id, d)
  \/ \E id \in Ids : deleteItemM3(UI, id)
  \/ resetDemoDataM3(UI)
  \/ \E s \in LookupSkus : lookupBySku(UI, s)
  \/ Return(UI)

SpecM3 == InitM3 /\ [][NextM3]_vars

\* What a lookup of sku has to give for the collection arr: the live
\* record with that canonical SKU, or not-found when there is none.
Expected(arr, sku, r) ==
  IF \E i \in DOMAIN arr : Canonical(arr[i].sku) = Canonical(sku)
  THEN \E i \in DOMAIN arr : arr[i] = r /\ Canonical(arr[i].sku) = Canonical(sku)
  ELSE r = NoItem

\* C12: in every reachable state and for every input s, getBySku(s) is the
\* live record whose normalized SKU is s trimmed and uppercased, and null
\* exactly when no live record has that normalized SKU; every lookup a
\* caller made returned that; after addItem with sku "cb-100" the lookup
\* of "CB-100" gives the added record.
C12_LookupBySku ==
  /\ \A s \in LookupSkus : Expected(items, s, getBySku(skuIndex, s))
  /\ \A c \in Callers :
       LET k == calls[c] IN
       /\ (Done(c) /\ k.op = "getBySku") =>
            Expected(k.preItems, k.draft.sku.s, k.result.item)
       /\ (Done(c) /\ k.op = "addItem" /\ k.result.ok) =>
            getBySku(skuIndex, ToUpperCase(k.draft.sku.s)) = k.result.item

\* addItem with sku "cb-100" succeeded next to another record, and the
\* lookup of "CB-100" gives the record added.
C12_Witness ==
  /\ Done(UI) /\ calls[UI].op = "addItem" /\ calls[UI].result.ok
  /\ calls[UI].draft.sku = Str(<<"c","b","-","1","0","0">>)
  /\ Len(items) >= 2
  /\ getBySku(skuIndex, <<"C","B","-","1","0","0">>) = calls[UI].result.item

\* ------------------------------------------ a caller that uses getAll()
\* getAll() is [...this.items]: a new array holding the same record
\* objects as items, which are also the values of skuIndex. Records are
\* modelled by value, and the record object with a given id is the one
\* object that items and skuIndex hold under that id.

\* A write obj.field = value on the record object with this id, seen
\* through every reference the service holds to it.
WriteItems(arr, id, rec) ==
  [i \in DOMAIN arr |-> IF arr[i].id = id THEN rec ELSE arr[i]]
WriteIndex(index, id, rec) ==
  [k \in DOMAIN index |-> IF index[k].id = id THEN rec ELSE index[k]]

\* A record a caller makes up, and field values a caller writes
CallerRecord == [id |-> NoId, name |-> <<"x">>, sku |-> <<"X">>,
                 quantity |-> 100, price |-> 100]
CallerQuantities == {700}
CallerSkus == {<<"z">>}

Reverse(arr) == [i \in DOMAIN arr |-> arr[Len(arr) + 1 - i]]

\* The caller's use of getAll() as one run of its code, recorded as a call
Snapshot(c, step) ==
  Finish(Begin(c, "getAll", NoId, NoDraft), NoResult, <<"copy", step>>)

\* const s = service.getAll(); s.push(record)
snapshotPush(c) ==
  /\ CanStart(c)
  /\ snapshot' = Append(getAll(items), CallerRecord)
  /\ calls' = [calls EXCEPT ![c] = Snapshot(c, "push")]
  /\ UNCHANGED <<items, skuIndex, store, adminHash, unlocked, nextId, loaded, localItems, sortVars, uiVars, pmVars>>

\* const s = service.getAll(); s.pop()
snapshotPop(c) ==
  /\ CanStart(c)
  /\ snapshot' = SubSeq(getAll(items), 1, Len(items) - 1)
  /\ calls' = [calls EXCEPT ![c] = Snapshot(c, "pop")]
  /\ UNCHANGED <<items, skuIndex, store, adminHash, unlocked, nextId, loaded, localItems, sortVars, uiVars, pmVars>>

\* const s = service.getAll(); s.reverse()
snapshotReverse(c) ==
  /\ CanStart(c)
  /\ snapshot' = Reverse(getAll(items))
  /\ calls' = [calls EXCEPT ![c] = Snapshot(c, "reverse")]
  /\ UNCHANGED <<items, skuIndex, store, adminHash, unlocked, nextId, loaded, localItems, sortVars, uiVars, pmVars>>

\* const s = service.getAll(); s[i].quantity = q
snapshotSetQuantity(c, i, q) ==
  /\ CanStart(c)
  /\ i \in DOMAIN items
  /\ LET s   == getAll(items)
         rec == [s[i] EXCEPT !.quantity = q]
     IN /\ snapshot' = [s EXCEPT ![i] = rec]
        /\ items' = WriteItems(items, s[i].id, rec)
        /\ skuIndex' = WriteIndex(skuIndex, s[i].id, rec)
  /\ calls' = [calls EXCEPT ![c] = Snapshot(c, "setQuantity")]
  /\ UNCHANGED <<store, adminHash, unlocked, nextId, loaded,
                 localItems, sortVars, uiVars, pmVars>>

\* const s = service.getAll(); s[i].sku = sku
snapshotSetSku(c, i, sku) ==
  /\ CanStart(c)
  /\ i \in DOMAIN items
  /\ LET s   == getAll(items)
         rec == [s[i] EXCEPT !.sku = sku]
     IN /\ snapshot' = [s EXCEPT ![i] = rec]
        /\ items' = WriteItems(items, s[i].id, rec)
        /\ skuIndex' = WriteIndex(skuIndex, s[i].id, rec)
  /\ calls' = [calls EXCEPT ![c] = Snapshot(c, "setSku")]
  /\ UNCHANGED <<store, adminHash, unlocked, nextId, loaded,
                 localItems, sortVars, uiVars, pmVars>>

\* The synchronous service with a caller that changes what getAll() gave
NextSnapshot ==
  \/ \E id \in Ids : deleteItemM3(UI, id)
  \/ resetDemoDataM3(UI)
  \/ snapshotPush(UI)
  \/ snapshotPop(UI)
  \/ snapshotReverse(UI)
  \/ \E i \in 1..MaxId, q \in CallerQuantities : snapshotSetQuantity(UI, i, q)
  \/ \E i \in 1..MaxId, sku \in CallerSkus : snapshotSetSku(UI, i, sku)
  \/ Return(UI)

SpecSnapshot == InitM3 /\ [][NextSnapshot]_vars

\* C14: whatever a caller does to the value getAll() returned, to the
\* array or to a record in it, the collection and the SKU index are as
\* they were when getAll() was called.
C14_SnapshotIsolated ==
  \A c \in Callers :
    (Done(c) /\ calls[c].op = "getAll") => MemoryUnchanged(c)

\* The part of C14 that holds: adding to, removing from and reordering the
\* returned array leaves the collection and the index as they were.
C14_ArrayIsolated ==
  \A c \in Callers :
    (Done(c) /\ calls[c].op = "getAll"
       /\ calls[c].log[2] \in {"push", "pop", "reverse"}) => MemoryUnchanged(c)

\* ------------------------------------------- algorithms.js: mergeSort
\* Arrays are objects: heap[r] is the content of the array with
\* reference r, and an argument or result that is an array is Ref(r).
Ref(r) == [t |-> "ref", r |-> r]
Fn(f) == [t |-> "fn", f |-> f]

\* The elements sorted: objects with a key k; `at` is the position the
\* object had in the input, which tells objects with equal keys apart.
Keys == 1..MaxKey
Element(k, at) == [k |-> k, at |-> at]
KeySeqs == UNION {[1..n -> Keys] : n \in 0..MaxLen}
ElementsOf(ks) == [i \in DOMAIN ks |-> Element(ks[i], i)]

\* First arguments that are not arrays, second arguments that are not
\* functions
NotArrays == {Undef, Str(<<"b","a">>)}
NotFunctions == {Undef, Str(<<"k">>)}

\* The comparison functions passed: by key ascending and descending, one
\* that calls everything equal, one whose order is a cycle, one that
\* calls keys one apart equal, and one that throws.
ComparatorNames == {"byKey", "byKeyDesc", "tie", "cyclic", "near", "throws"}
Comparators == {Fn(f) : f \in ComparatorNames}

Abs(n) == IF n < 0 THEN 0 - n ELSE n

\* compare(a, b) for a function compare that returns
Compare(compare, a, b) ==
  CASE compare.f = "byKey"     -> a.k - b.k
    [] compare.f = "byKeyDesc" -> b.k - a.k
    [] compare.f = "tie"       -> 0
    [] compare.f = "cyclic"    -> LET d == (a.k - b.k) % 3
                                  IN IF d = 0 THEN 0 ELSE IF d = 1 THEN 1 ELSE 0 - 1
    [] compare.f = "near"      -> IF Abs(a.k - b.k) <= 1 THEN 0 ELSE a.k - b.k

\* compare(a, b) throws: compare is not a function, or its body throws
Throws(compare) == compare.t # "fn" \/ compare.f = "throws"
ThrownBy(compare) == IF compare.t # "fn" THEN "TypeError" ELSE "Error"

SortReturned(value) == [how |-> "returned", value |-> value]
SortThrew(error, message) == [how |-> "threw", error |-> error, message |-> message]
MsgExpectsArray == "mergeSort expects an array."
MsgExpectsFunction == "mergeSort expects a comparison function."
MsgCompare == "thrown in compare"

\* Array.isArray(arr)
isArray(v) == v.t = "ref"

typeofFunction_Any(v) == TRUE

\* typeof compare === "function"
typeofFunction(v) == v.t = "fn"

slice_Splice(h, arr, start, end) ==
  [heap |-> Append([h EXCEPT ![arr.r] = SubSeq(@, 1, start) \o SubSeq(@, end + 1, Len(@))],
                   SubSeq(h[arr.r], start + 1, end)),
   ref  |-> Ref(Len(h) + 1)]

\* arr.slice(start, end): a new array with the elements start..end-1
slice(h, arr, start, end) ==
  [heap |-> Append(h, SubSeq(h[arr.r], start + 1, end)),
   ref  |-> Ref(Len(h) + 1)]

takeLeft_Strict(c) == c < 0

takeLeft_Never(c) == FALSE

\* compare(left[i], right[j]) <= 0
takeLeft(c) == c <= 0

\* The three loops of merge, from indexes i and j (1-based) on: what
\* result holds at the end, or that compare threw
RECURSIVE mergeLoop(_, _, _, _, _, _)
mergeLoop(left, right, i, j, result, compare) ==
  IF i <= Len(left) /\ j <= Len(right)
  THEN IF Throws(compare)
       THEN [threw |-> TRUE, result |-> result]
       ELSE IF takeLeft(Compare(compare, left[i], right[j]))
            THEN mergeLoop(left, right, i + 1, j, Append(result, left[i]), compare)
            ELSE mergeLoop(left, right, i, j + 1, Append(result, right[j]), compare)
  ELSE [threw  |-> FALSE,
        result |-> result \o SubSeq(left, i, Len(left)) \o SubSeq(right, j, Len(right))]

\* merge(left, right, compare): result is a new array; left and right
\* are only read
merge(h, left, right, compare) ==
  LET m == mergeLoop(h[left.r], h[right.r], 1, 1, <<>>, compare)
      r == Ref(Len(h) + 1)
  IN [heap |-> Append(h, m.result),
      out  |-> IF m.threw THEN SortThrew(ThrownBy(compare), MsgCompare)
               ELSE SortReturned(r)]

\* mergeSort(arr, compare): the heap it leaves and how it ends
RECURSIVE mergeSort(_, _, _)
mergeSort(h, arr, compare) ==
  IF ~isArray(arr)
  THEN [heap |-> h, out |-> SortThrew("TypeError", MsgExpectsArray)]
  ELSE IF ~typeofFunction(compare)
  THEN [heap |-> h, out |-> SortThrew("TypeError", MsgExpectsFunction)]
  ELSE IF Len(h[arr.r]) <= 1
  THEN [heap |-> h, out |-> SortReturned(arr)]
  ELSE LET mid  == Len(h[arr.r]) \div 2
           s1   == slice(h, arr, 0, mid)
           left == mergeSort(s1.heap, s1.ref, compare)
       IN IF left.out.how = "threw" THEN left
          ELSE LET s2    == slice(left.heap, arr, mid, Len(left.heap[arr.r]))
                   right == mergeSort(s2.heap, s2.ref, compare)
               IN IF right.out.how = "threw" THEN right
                  ELSE merge(right.heap, left.out.value, right.out.value, compare)

\* A caller is about to call mergeSort(arr, compare): arr is an array of
\* at most MaxLen elements or not an array, compare is a function or not.
ReadyToSort(h, arr, compare) ==
  [pc |-> "ready", arr |-> arr, compare |-> compare,
   out |-> [how |-> "none"], heapBefore |-> h]

InitSort ==
  /\ \E ks \in KeySeqs, na \in NotArrays \cup {Ref(1)},
        compare \in Comparators \cup NotFunctions :
       /\ heap = IF na = Ref(1) THEN <<ElementsOf(ks)>> ELSE <<>>
       /\ na # Ref(1) => ks = <<>>
       /\ sortCall = ReadyToSort(heap, na, compare)
  /\ items = <<>> /\ skuIndex = EmptyMap /\ store = EmptyStore
  /\ adminHash = NoHash /\ unlocked = FALSE /\ nextId = 0 /\ loaded = FALSE
  /\ calls = [c \in Callers |-> IdleCall]
  /\ localItems = <<>> /\ snapshot = <<>>
  /\ UiAtRest

\* The call of mergeSort, start to end
callMergeSort ==
  /\ sortCall.pc = "ready"
  /\ LET r == mergeSort(heap, sortCall.arr, sortCall.compare)
     IN /\ heap' = r.heap
        /\ sortCall' = [sortCall EXCEPT !.pc = "done", !.out = r.out]
  /\ UNCHANGED <<m4Vars, m3Vars, uiVars, pmVars>>

\* if (direction === "desc") sorted.reverse(): the result reversed in place
reverseResult ==
  /\ sortCall.pc = "done" /\ sortCall.out.how = "returned"
  /\ heap' = [heap EXCEPT ![sortCall.out.value.r] = Reverse(@)]
  /\ sortCall' = [sortCall EXCEPT !.pc = "changed"]
  /\ UNCHANGED <<m4Vars, m3Vars, uiVars, pmVars>>

\* A caller appends an element to the array mergeSort returned.
pushResult ==
  /\ sortCall.pc = "done" /\ sortCall.out.how = "returned"
  /\ heap' = [heap EXCEPT ![sortCall.out.value.r] = Append(@, Element(1, 0))]
  /\ sortCall' = [sortCall EXCEPT !.pc = "changed"]
  /\ UNCHANGED <<m4Vars, m3Vars, uiVars, pmVars>>

NextSort ==
  \/ callMergeSort
  \/ reverseResult
  \/ pushResult

SpecSort == InitSort /\ [][NextSort]_vars

\* What the call was given and what it gave back
SortDone   == sortCall.pc = "done"
GivenArray == isArray(sortCall.arr)
SortInput  == sortCall.heapBefore[sortCall.arr.r]
SortOutput == heap[sortCall.out.value.r]
Elems(seq) == {seq[i] : i \in DOMAIN seq}
Count(seq, e) == Cardinality({i \in DOMAIN seq : seq[i] = e})
IndexIn(seq, e) == CHOOSE i \in DOMAIN seq : seq[i] = e
Sign(n) == IF n < 0 THEN 0 - 1 ELSE IF n > 0 THEN 1 ELSE 0
KeyElements == {Element(k, 0) : k \in Keys}

\* A three-way comparison function: it returns a number for every pair,
\* and what it says of (y, x) is the opposite of what it says of (x, y).
\* Neither a total order nor transitivity is asked for.
ThreeWay(compare) ==
  /\ compare.t = "fn" /\ ~Throws(compare)
  /\ \A x, y \in KeyElements :
       Sign(Compare(compare, x, y)) = 0 - Sign(Compare(compare, y, x))

\* A comparison function that orders consistently (a weak order): ties
\* permitted, and "not after" is transitive.
WeakOrder(compare) ==
  /\ ThreeWay(compare)
  /\ \A x, y, z \in KeyElements :
       (Compare(compare, x, y) <= 0 /\ Compare(compare, y, z) <= 0) =>
         Compare(compare, x, z) <= 0

\* C15: for every array S of at most MaxLen elements and every three-way
\* comparison function C (ties permitted, no total order, not even
\* transitivity required), mergeSort(S, C) returns an array of the same
\* length with the same multiset of elements in which no element x next
\* before an element y has C(x, y) > 0.
C15_SortedPermutation ==
  (SortDone /\ GivenArray /\ ThreeWay(sortCall.compare)) =>
    /\ sortCall.out.how = "returned"
    /\ Len(SortOutput) = Len(SortInput)
    /\ \A e \in Elems(SortInput) \cup Elems(SortOutput) :
         Count(SortOutput, e) = Count(SortInput, e)
    /\ \A i \in 1..(Len(SortOutput) - 1) :
         Compare(sortCall.compare, SortOutput[i], SortOutput[i + 1]) <= 0

\* The example: [{k:3},{k:1},{k:2}] by (a,b) => a.k - b.k gives k 1, 2, 3.
C15_Witness ==
  /\ SortDone /\ GivenArray /\ sortCall.compare = Fn("byKey")
  /\ SortInput = ElementsOf(<<3, 1, 2>>)
  /\ SortOutput = <<Element(1, 2), Element(2, 3), Element(3, 1)>>

\* Elements the comparison function calls equal are in the output in the
\* order they had in the input.
Stable(compare, in, out) ==
  \A p, q \in DOMAIN in :
    (p < q /\ Compare(compare, in[p], in[q]) = 0) =>
      /\ in[p] \in Elems(out) /\ in[q] \in Elems(out)
      /\ IndexIn(out, in[p]) < IndexIn(out, in[q])

\* C16 as stated: for every array S and every three-way comparison
\* function C, elements a, b of S with C(a, b) = 0 keep their relative
\* order in mergeSort(S, C).
C16_StableForEveryComparator ==
  (SortDone /\ GivenArray /\ ThreeWay(sortCall.compare)) =>
    /\ sortCall.out.how = "returned"
    /\ Stable(sortCall.compare, SortInput, SortOutput)

\* C16, amended: the same for every comparison function that is a weak
\* order; and merge emits the left element first on a comparison result
\* of exactly zero, so that under a function that always returns zero the
\* output is the input order.
C16_StableForWeakOrders ==
  /\ (SortDone /\ GivenArray /\ WeakOrder(sortCall.compare)) =>
       /\ sortCall.out.how = "returned"
       /\ Stable(sortCall.compare, SortInput, SortOutput)
  /\ (SortDone /\ GivenArray /\ sortCall.compare = Fn("tie")) =>
       SortOutput = SortInput

\* An array with equal keys at both ends and a smaller key between them
\* was sorted by key: the equal ones met in merge and kept their order.
C16_Witness ==
  /\ SortDone /\ GivenArray /\ sortCall.compare = Fn("byKey")
  /\ SortInput = ElementsOf(<<2, 1, 2>>)
  /\ SortOutput = <<Element(1, 2), Element(2, 1), Element(2, 3)>>

\* C17: when mergeSort(S, C) has returned or thrown, S holds the elements
\* it held before the call, in the same order.
C17_InputNotMutated ==
  (SortDone /\ GivenArray) => heap[sortCall.arr.r] = SortInput

\* An unsorted array was sorted into a different order, and is itself as
\* it was.
C17_Witness ==
  /\ SortDone /\ GivenArray /\ sortCall.out.how = "returned"
  /\ Len(SortInput) >= 3
  /\ SortOutput # SortInput
  /\ heap[sortCall.arr.r] = SortInput

\* The failure the spec calls InvalidArgument: the TypeError of one of the
\* two argument checks
InvalidArgument(out) ==
  /\ out.how = "threw" /\ out.error = "TypeError"
  /\ out.message \in {MsgExpectsArray, MsgExpectsFunction}

\* C18: mergeSort fails with InvalidArgument exactly when its first
\* argument is not an array or its second is not a function, whatever the
\* length of the array; an empty array with a function gives an empty
\* result.
C18_InvalidArgument ==
  SortDone =>
    /\ InvalidArgument(sortCall.out) <=>
         (sortCall.arr.t # "ref" \/ sortCall.compare.t # "fn")
    /\ (sortCall.arr.t = "ref" /\ sortCall.compare.t = "fn" /\ SortInput = <<>>) =>
         (sortCall.out.how = "returned" /\ SortOutput = <<>>)

\* An array of one element was passed with something that is not a
\* function, and the call failed.
C18_Witness ==
  /\ SortDone /\ GivenArray /\ Len(SortInput) = 1
  /\ sortCall.compare \in NotFunctions
  /\ InvalidArgument(sortCall.out)

\* C19: the array mergeSort returns is never the array it was given, for
\* arrays of every length, so that the input holds what it held before
\* the call also after the caller changed the result in place.
C19_ResultIsNewArray ==
  (sortCall.pc \in {"done", "changed"} /\ GivenArray
     /\ sortCall.out.how = "returned") =>
    /\ sortCall.out.value # sortCall.arr
    /\ heap[sortCall.arr.r] = SortInput

\* ===================================================== reads and reloads
\* The read operations of the IndexedDB application and a second load of
\* the collection, with a database that another tab of the same origin
\* may change while the page is open.

\* What a read operation hands back: an array or a record, not a result
\* object.
Value(v) == [how |-> "value", value |-> v]

\* index.get(sku) on the store's sku index: the record stored with exactly
\* that sku, or none
IndexGet(st, sku) ==
  IF \E k \in DOMAIN st : st[k].sku = sku
  THEN st[CHOOSE k \in DOMAIN st : st[k].sku = sku]
  ELSE NoItem

\* getBySku(sku) of db.js: one readonly transaction; result || null
getBySku_db(st, sku, fail) ==
  IF fail THEN [ok |-> FALSE, value |-> NoItem]
  ELSE [ok |-> TRUE, value |-> IndexGet(st, sku)]

\* The drafts and SKUs the reads are made with
ReadDrafts ==
  MkDrafts(GoodNames, {Str(<<"c","b","-","1","0","0">>), Str(<<"A">>)},
           BaseQuantity, GoodPrices)
  \cup MkDrafts(BadNames, BaseSku, BaseQuantity, GoodPrices)
ReadSkus == {<<"A">>, <<"a">>, <<"C","B","-","1","0","0">>}
ReadOps == {"getAll", "validateDraft", "getBySku"}

\* A call of InventoryService.getAll()
getAllCall(c) ==
  /\ CanStart(c)
  /\ calls' = [calls EXCEPT ![c] =
                 Finish(Begin(c, "getAll", NoId, NoDraft), Value(getAll(items)), <<>>)]
  /\ UNCHANGED <<items, skuIndex, store, adminHash, unlocked, nextId, loaded>>
  /\ UNCHANGED <<m3Vars, sortVars, uiVars, pmVars>>

validateDraftCall_Gated(c, draft, id) ==
  /\ CanStart(c)
  /\ LET gate == requireWritePermission(canWrite)
     IN calls' = [calls EXCEPT ![c] =
                    Finish(Begin(c, "validateDraft", id, draft),
                           IF ~gate.ok THEN gate ELSE validateDraft(skuIndex, draft, id),
                           <<"perm", "validate">>)]
  /\ UNCHANGED <<items, skuIndex, store, adminHash, unlocked, nextId, loaded>>
  /\ UNCHANGED <<m3Vars, sortVars, uiVars, pmVars>>

\* A call of InventoryService.validateDraft(draft, {existingId})
validateDraftCall(c, draft, id) ==
  /\ CanStart(c)
  /\ calls' = [calls EXCEPT ![c] =
                 Finish(Begin(c, "validateDraft", id, draft),
                        validateDraft(skuIndex, draft, id), <<"validate">>)]
  /\ UNCHANGED <<items, skuIndex, store, adminHash, unlocked, nextId, loaded>>
  /\ UNCHANGED <<m3Vars, sortVars, uiVars, pmVars>>

\* A call of getBySku(sku) of db.js, up to its await
getBySkuCall(c, sku) ==
  /\ CanStart(c)
  /\ calls' = [calls EXCEPT ![c] =
                 Suspend([Begin(c, "getBySku", NoId, NoDraft) EXCEPT !.oldSku = sku],
                         <<"storage">>)]
  /\ UNCHANGED <<items, skuIndex, store, adminHash, unlocked, nextId, loaded>>
  /\ UNCHANGED <<m3Vars, sortVars, uiVars, pmVars>>

\* The database serves the index.get() a getBySku is waiting for, and
\* getBySku returns or its promise is rejected.
getBySkuExec(c) ==
  /\ calls[c].pc = "await" /\ calls[c].op = "getBySku"
  /\ \E fail \in BOOLEAN :
       LET r == getBySku_db(store, calls[c].oldSku, fail)
           k == Settle(calls[c], r.ok)
       IN calls' = [calls EXCEPT ![c] =
                      Finish(k, IF r.ok THEN Value(r.value) ELSE Threw, k.log)]
  /\ UNCHANGED <<items, skuIndex, store, adminHash, unlocked, nextId, loaded>>
  /\ UNCHANGED <<m3Vars, sortVars, uiVars, pmVars>>

\* Another tab of the same origin deletes a record from the shared
\* database.
otherTabDelete(id) ==
  /\ id \in DOMAIN store
  /\ store' = StoreDelete(store, id).store
  /\ UNCHANGED <<items, skuIndex, adminHash, unlocked, nextId, loaded, calls>>
  /\ UNCHANGED <<m3Vars, sortVars, uiVars, pmVars>>

NextLoad ==
  \/ Serial /\ init(UI)
  \/ initResume(UI)
  \/ getAllItemsExec(UI)
  \/ Serial /\ resetDemoData(UI) /\ UNCHANGED uiVars
  \/ resetDemoDataResume(UI)
  \/ clearAndSeedExec(UI)
  \/ \E id \in Ids : Serial /\ deleteItem(UI, id) /\ UNCHANGED uiVars
  \/ deleteItemResume(UI)
  \/ deleteItemByIdExec(UI)
  \/ \E id \in Ids : Serial /\ otherTabDelete(id)
  \/ Serial /\ getAllCall(UI)
  \/ \E d \in ReadDrafts, id \in {NoId, 1, 2} : Serial /\ validateDraftCall(UI, d, id)
  \/ \E sku \in ReadSkus : Serial /\ getBySkuCall(UI, sku)
  \/ getBySkuExec(UI)
  \/ Return(UI)
  \/ EventTurn /\ lock
  \/ \E pin \in Pins : EventTurn /\ setAdminPin(pin)
  \/ \E pin \in Pins : EventTurn /\ unlock(pin)

SpecLoad == Init /\ [][NextLoad]_vars


\* ------------------------------------------------------------------ C21
\* A step of a read operation: it begins, is served, or ends one.
ReadStep ==
  \E c \in Callers : calls'[c] # calls[c] /\ calls'[c].op \in ReadOps

\* What a read returns, from the collection, the index and the store alone
ReadResult(k, st) ==
  CASE k.op = "getAll" -> Value(k.preItems)
    [] k.op = "validateDraft" -> validateDraft(k.preIndex, k.draft, k.id)
    [] k.op = "getBySku" ->
         IF k.db = "reject" THEN Threw ELSE Value(IndexGet(st, k.oldSku))

ReadsIgnorePermission ==
  \A c \in Callers :
    LET k == calls[c]
    IN (Done(c) /\ k.op \in ReadOps) =>
         /\ k.result = ReadResult(k, store)
         /\ "perm" \notin {k.log[i] : i \in DOMAIN k.log}
         /\ MemoryUnchanged(c)

\* C21: getAll, the lookup by SKU and validateDraft leave the collection,
\* the index and the store as they are and do not consult the permission
\* gate: their result is the one the collection state determines, in the
\* Locked and in the Unlocked state alike.
C21_ReadsArePure ==
  /\ []ReadsIgnorePermission
  /\ [][ReadStep => UNCHANGED <<items, skuIndex, store>>]_vars

\* In the Locked state a validateDraft call accepted a draft, with
\* records loaded.
C21_Witness ==
  \E c \in Callers :
    /\ Done(c) /\ calls[c].op = "validateDraft" /\ ~calls[c].cw
    /\ calls[c].result.ok /\ items # <<>>

\* ------------------------------------------------------------------ C26
\* The index holds one entry per record of the array, under its SKU.
IndexOf(arr) ==
  /\ DOMAIN skuIndex = {normalizeSku(arr[i].sku) : i \in DOMAIN arr}
  /\ \A i \in DOMAIN arr : skuIndex[normalizeSku(arr[i].sku)] = arr[i]
  /\ Cardinality(DOMAIN skuIndex) = Len(arr)

InitLoaded ==
  \A c \in Callers :
    LET k == calls[c]
    IN (Done(c) /\ k.op = "init" /\ k.result.how = "returned") =>
         /\ items = k.fetched
         /\ IndexOf(k.fetched)

\* C26: init() replaces the in-memory collection with exactly the records
\* the store returned, whatever was in memory, rebuilds the index so that
\* it has one entry per loaded record and none from before, and writes
\* nothing to the store.
C26_InitReplaces ==
  /\ []InitLoaded
  /\ [][LoadStep => store' = store]_vars

\* A second init() dropped a record that was in memory, and its index
\* entry, because the store no longer returned it.
C26_Witness ==
  \E c \in Callers :
    /\ Done(c) /\ calls[c].op = "init" /\ calls[c].result.how = "returned"
    /\ Len(calls[c].preItems) > Len(items) /\ items # <<>>
    /\ (DOMAIN calls[c].preIndex) \ (DOMAIN skuIndex) # {}


\* ============================================ the permission state machine
\* PermissionManager with its methods split at their awaits of sha256, the
\* page being reloaded, and the browser session ending.  adminHash is the
\* localStorage entry, unlocked the sessionStorage entry.

MsgPinShort         == "PIN must be at least 4 characters."
MsgPinSet           == "Admin PIN set. Use Unlock to enable write actions."
MsgNoPin            == "No admin PIN is configured yet."
MsgIncorrectPin     == "Incorrect PIN."
MsgUnlocked         == "Admin mode unlocked for this session."
MsgNewPinShort      == "New PIN must be at least 4 characters."
MsgCurrentIncorrect == "Current PIN is incorrect."
MsgPinUpdated       == "Admin PIN updated."

\* The PINs typed into the prompts: two of valid length, one too short.
SessionPins == Pins \cup {<<"4","3","2","1">>}

\* The UI, which makes the permission calls, exists once init() returned.
UiReady == loaded

PermIdle(c) == permCalls[c].pc = "idle"

PermResult(ok, message) == Returned(ok, message, NoItem)

PermFinish(call, result) == [call EXCEPT !.pc = "done", !.result = result]

\* Everything but the two storage entries and the permission calls
PermFrame ==
  /\ UNCHANGED <<items, skuIndex, store, nextId, loaded, calls>>
  /\ UNCHANGED <<m3Vars, sortVars, uiVars>>

\* setAdminPin(pin), up to its await of sha256(clean)
setAdminPinStart(c, pin) ==
  /\ UiReady /\ PermIdle(c)
  /\ LET clean == Trim(pin)
         call  == [IdlePermCall EXCEPT !.op = "setAdminPin", !.pin = pin]
     IN permCalls' = [permCalls EXCEPT ![c] =
          IF Len(clean) < 4 THEN PermFinish(call, PermResult(FALSE, MsgPinShort))
          ELSE [call EXCEPT !.pc = "await"]]
  /\ UNCHANGED <<adminHash, unlocked>>
  /\ PermFrame

\* setAdminPin after the await: store the hash, then this.lock()
setAdminPinResume(c) ==
  /\ permCalls[c].pc = "await" /\ permCalls[c].op = "setAdminPin"
  /\ adminHash' = sha256(Trim(permCalls[c].pin))
  /\ unlocked' = FALSE
  /\ permCalls' = [permCalls EXCEPT ![c] = PermFinish(@, PermResult(TRUE, MsgPinSet))]
  /\ PermFrame

\* unlock(pin), up to its await of sha256(clean)
unlockStart(c, pin) ==
  /\ UiReady /\ PermIdle(c)
  /\ LET stored == adminHash
         call   == [IdlePermCall EXCEPT !.op = "unlock", !.pin = pin, !.stored = stored]
     IN permCalls' = [permCalls EXCEPT ![c] =
          IF stored = NoHash THEN PermFinish(call, PermResult(FALSE, MsgNoPin))
          ELSE [call EXCEPT !.pc = "await"]]
  /\ UNCHANGED <<adminHash, unlocked>>
  /\ PermFrame

unlockResume_AnyPin(c) ==
  /\ permCalls[c].pc = "await" /\ permCalls[c].op = "unlock"
  /\ unlocked' = TRUE
  /\ permCalls' = [permCalls EXCEPT ![c] = PermFinish(@, PermResult(TRUE, MsgUnlocked))]
  /\ UNCHANGED adminHash
  /\ PermFrame

\* unlock after the await: a hash other than the one read locks,
\* the same hash sets the session entry
unlockResume(c) ==
  /\ permCalls[c].pc = "await" /\ permCalls[c].op = "unlock"
  /\ LET hash == sha256(Trim(permCalls[c].pin))
     IN IF hash # permCalls[c].stored
        THEN /\ unlocked' = FALSE
             /\ permCalls' = [permCalls EXCEPT ![c] =
                                PermFinish(@, PermResult(FALSE, MsgIncorrectPin))]
        ELSE /\ unlocked' = TRUE
             /\ permCalls' = [permCalls EXCEPT ![c] =
                                PermFinish(@, PermResult(TRUE, MsgUnlocked))]
  /\ UNCHANGED adminHash
  /\ PermFrame

\* changePin(currentPin, newPin), up to its await of sha256(currentClean)
changePinStart(c, currentPin, newPin) ==
  /\ UiReady /\ PermIdle(c)
  /\ LET stored == adminHash
         call   == [IdlePermCall EXCEPT !.op = "changePin", !.pin = currentPin,
                                        !.newPin = newPin, !.stored = stored]
     IN permCalls' = [permCalls EXCEPT ![c] =
          IF stored = NoHash THEN PermFinish(call, PermResult(FALSE, MsgNoPin))
          ELSE IF Len(Trim(newPin)) < 4
          THEN PermFinish(call, PermResult(FALSE, MsgNewPinShort))
          ELSE [call EXCEPT !.pc = "await"]]
  /\ UNCHANGED <<adminHash, unlocked>>
  /\ PermFrame

\* changePin after its first await: a wrong current PIN changes nothing;
\* otherwise up to its await of sha256(newClean)
changePinVerify(c) ==
  /\ permCalls[c].pc = "await" /\ permCalls[c].op = "changePin"
  /\ permCalls' = [permCalls EXCEPT ![c] =
       IF sha256(Trim(@.pin)) # @.stored
       THEN PermFinish(@, PermResult(FALSE, MsgCurrentIncorrect))
       ELSE [@ EXCEPT !.pc = "await2"]]
  /\ UNCHANGED <<adminHash, unlocked>>
  /\ PermFrame

\* changePin after its second await: store the new hash
changePinResume(c) ==
  /\ permCalls[c].pc = "await2" /\ permCalls[c].op = "changePin"
  /\ adminHash' = sha256(Trim(permCalls[c].newPin))
  /\ permCalls' = [permCalls EXCEPT ![c] = PermFinish(@, PermResult(TRUE, MsgPinUpdated))]
  /\ UNCHANGED unlocked
  /\ PermFrame

\* The handler that made a permission call shows its message.
permReturn(c) ==
  /\ permCalls[c].pc = "done"
  /\ permCalls' = [permCalls EXCEPT ![c] = IdlePermCall]
  /\ UNCHANGED <<adminHash, unlocked>>
  /\ PermFrame

\* The page is loaded again in the same tab: every object of the page is
\* gone and main() runs anew; localStorage, sessionStorage and the
\* database stay.  A storage request still pending is served before the
\* page goes (committed or aborted).
reload ==
  /\ \A c \in Callers : calls[c].pc # "await"
  /\ items' = <<>> /\ skuIndex' = EmptyMap /\ loaded' = FALSE
  /\ calls' = [c \in Callers |-> IdleCall]
  /\ permCalls' = [c \in Callers |-> IdlePermCall]
  /\ isBusy' = FALSE /\ editId' = NoId /\ uiEvent' = NoEvent
  /\ UNCHANGED <<store, adminHash, unlocked, nextId>>
  /\ UNCHANGED <<m3Vars, sortVars>>

\* The tab is closed and the app opened in a new one: as a reload, and
\* sessionStorage starts empty.
endSession ==
  /\ \A c \in Callers : calls[c].pc # "await"
  /\ items' = <<>> /\ skuIndex' = EmptyMap /\ loaded' = FALSE
  /\ calls' = [c \in Callers |-> IdleCall]
  /\ permCalls' = [c \in Callers |-> IdlePermCall]
  /\ isBusy' = FALSE /\ editId' = NoId /\ uiEvent' = NoEvent
  /\ unlocked' = FALSE
  /\ UNCHANGED <<store, adminHash, nextId>>
  /\ UNCHANGED <<m3Vars, sortVars>>

\* main() runs init() once, when the page starts.
Booting == ~loaded /\ Serial

NextSession ==
  \/ Booting /\ init(UI)
  \/ initResume(UI)
  \/ getAllItemsExec(UI)
  \/ UiReady /\ Serial /\ resetDemoData(UI) /\ UNCHANGED uiVars
  \/ resetDemoDataResume(UI)
  \/ clearAndSeedExec(UI)
  \/ Return(UI)
  \/ UiReady /\ lock
  \/ \E c \in Callers, pin \in SessionPins : setAdminPinStart(c, pin)
  \/ \E c \in Callers : setAdminPinResume(c)
  \/ \E c \in Callers, pin \in SessionPins : unlockStart(c, pin)
  \/ \E c \in Callers : unlockResume(c)
  \/ \E c \in Callers, p \in SessionPins, q \in SessionPins : changePinStart(c, p, q)
  \/ \E c \in Callers : changePinVerify(c)
  \/ \E c \in Callers : changePinResume(c)
  \/ \E c \in Callers : permReturn(c)
  \/ reload
  \/ endSession

SpecSession == Init /\ [][NextSession]_vars


\* ------------------------------------------------------------------ C22
\* An unlock call resumes with a PIN whose hash is the stored hash it read.
CorrectUnlock(c) ==
  /\ unlockResume(c)
  /\ permCalls[c].stored # NoHash
  /\ sha256(Trim(permCalls[c].pin)) = permCalls[c].stored

\* C22: the permission state changes from Locked to Unlocked only in an
\* unlock(pin) call made with an admin PIN configured and a PIN whose hash
\* equals the stored hash the call read; setAdminPin, changePin, lock, a
\* failed unlock and the inventory operations never make canWrite() true.
C22_UnlockOnlyByCorrectPin ==
  [][(~canWrite /\ canWrite') => \E c \in Callers : CorrectUnlock(c)]_vars

\* An unlock with the right PIN succeeded after one with a wrong PIN of
\* valid length had failed and left the state Locked.
C22_Witness ==
  /\ canWrite
  /\ \E c, d \in Callers :
       /\ permCalls[c].pc = "done" /\ permCalls[c].op = "unlock"
       /\ permCalls[c].result.ok
       /\ permCalls[d].pc = "done" /\ permCalls[d].op = "unlock"
       /\ ~permCalls[d].result.ok /\ Len(Trim(permCalls[d].pin)) >= 4

\* ------------------------------------------------------------------ C23
\* C23: the permission state changes from Unlocked to Locked only on an
\* explicit lock request or at session end; an unlock attempt with any
\* PIN, setAdminPin, changePin and the inventory operations leave
\* canWrite() true.
C23_LockOnlyOnRequest ==
  [][(canWrite /\ ~canWrite') => (lock \/ endSession)]_vars

\* ------------------------------------------------------------------ C24
\* The page has started and init() has not yet returned: there is no UI
\* yet, so no unlock has been performed since the start.
AppStarting == ~loaded

\* C24: at every start of the app, a reload within the same browser
\* session included, the permission state is Locked, and it stays Locked
\* until an unlock is performed after that start.
C24_LockedAtStart == AppStarting => ~canWrite


\* ===================================================== concurrent callers
\* Two callers of the service whose calls overlap: the UI and code that
\* holds the service object.  A call's storage request is served at any
\* later time, in any order.
ConcurrentDrafts == MkDrafts(GoodNames, GoodSkus, BaseQuantity, GoodPrices)

NextConcurrent ==
  \/ Booting /\ init(UI)
  \/ initResume(UI)
  \/ getAllItemsExec(UI)
  \/ \E c \in Callers, d \in ConcurrentDrafts : loaded /\ addItem(c, d) /\ UNCHANGED uiVars
  \/ \E c \in Callers : addItemResume(c)
  \/ \E c \in Callers : putItemExec(c)
  \/ \E c \in Callers : Return(c)
  \/ \E pin \in Pins : EventTurn /\ setAdminPin(pin)
  \/ \E pin \in Pins : EventTurn /\ unlock(pin)

SpecConcurrent == Init /\ [][NextConcurrent]_vars

\* ------------------------------------------------------------------ C27
\* Two addItem calls were in flight at once: each passed the in-memory
\* checks, and one was made while the other's write was still unserved.
InFlightTogether(c, d) ==
  /\ c # d
  /\ calls[c].op = "addItem" /\ calls[d].op = "addItem"
  /\ Pos(calls[c].log, "storage") # 0 /\ Pos(calls[d].log, "storage") # 0
  /\ calls[c].rec.id \in calls[d].pending \/ calls[d].rec.id \in calls[c].pending

SameSku(c, d) ==
  Canonical(OrEmpty(calls[c].draft.sku)) = Canonical(OrEmpty(calls[d].draft.sku))

Succeeded(c) == calls[c].result.how = "returned" /\ calls[c].result.ok

\* No two records of the array, and no two of the store, share a SKU.
NoSkuTwice ==
  /\ \A i, j \in DOMAIN items :
       Canonical(items[i].sku) = Canonical(items[j].sku) => i = j
  /\ \A i, j \in DOMAIN store :
       Canonical(store[i].sku) = Canonical(store[j].sku) => i = j

\* C27: of two addItem calls with the same normalized SKU in flight at
\* once, the store's unique index rejects one write; at most one call
\* returns success, the other returns a failure result and leaves memory
\* without its record, and neither store nor memory ever holds two
\* records with that SKU.
C27_ConcurrentAddsOneWins ==
  /\ NoSkuTwice
  /\ \A c, d \in Callers :
       (Done(c) /\ Done(d) /\ InFlightTogether(c, d) /\ SameSku(c, d)) =>
         /\ ~(Succeeded(c) /\ Succeeded(d))
         /\ calls[c].db = "reject" \/ calls[d].db = "reject"
         /\ \A e \in {c, d} :
              ~Succeeded(e) =>
                /\ calls[e].result.how = "returned"
                /\ calls[e].result.message = MsgDbAdd
                /\ calls[e].rec.id \notin LiveIds(items)
                /\ calls[e].rec.id \notin DOMAIN store

\* Two adds of one SKU written differently overlapped; the first write
\* was accepted, the second met the unique index.
C27_Witness ==
  \E c, d \in Callers :
    /\ Done(c) /\ Done(d) /\ InFlightTogether(c, d) /\ SameSku(c, d)
    /\ calls[c].draft.sku # calls[d].draft.sku
    /\ Succeeded(c) /\ ~Succeeded(d)
    /\ calls[c].rec.id \in LiveIds(items)


\* ================================================================ the UI
\* InventoryUI's handlers of the save, delete and reset events, each up to
\* its await of the service call and after it, with the service and the
\* database underneath.

\* The drafts typed into the form
UiDrafts ==
  MkDrafts(GoodNames, {Str(<<"A">>), Str(<<"c","b","-","1","0","0">>)},
           BaseQuantity, GoodPrices)
  \cup MkDrafts(BadNames, BaseSku, BaseQuantity, GoodPrices)

\* The call record a handler's service call goes to
FreeSlot == IF calls[UI].pc = "idle" THEN UI ELSE "other"

Handled(event, called) == [event |-> event, called |-> called]

\* What a handler leaves alone when it returns at its isBusy guard
Ignored(event) ==
  /\ uiEvent' = Handled(event, FALSE)
  /\ UNCHANGED <<isBusy, editId>>
  /\ UNCHANGED <<m4Vars, m3Vars, sortVars, pmVars>>

onSave_NoBusyGuard(draft) ==
  /\ isBusy' = TRUE
  /\ uiEvent' = Handled("save", TRUE)
  /\ UNCHANGED editId
  /\ IF editId # NoId THEN updateItem(FreeSlot, editId, draft)
     ELSE addItem(FreeSlot, draft)

\* onSave(), up to its await of updateItem or addItem
onSave(draft) ==
  IF isBusy THEN Ignored("save")
  ELSE /\ isBusy' = TRUE
       /\ uiEvent' = Handled("save", TRUE)
       /\ UNCHANGED editId
       /\ IF editId # NoId THEN updateItem(FreeSlot, editId, draft)
          ELSE addItem(FreeSlot, draft)

\* onResetDemo(), up to its await of resetDemoData
onResetDemo ==
  IF isBusy THEN Ignored("reset")
  ELSE /\ isBusy' = TRUE
       /\ uiEvent' = Handled("reset", TRUE)
       /\ UNCHANGED editId
       /\ resetDemoData(FreeSlot)

\* The click handler of a row's Delete button, the user confirming, up to
\* its await of deleteItem
onDelete(id) ==
  IF isBusy THEN Ignored("delete")
  ELSE /\ id \in LiveIds(getAll(items))
       /\ isBusy' = TRUE
       /\ uiEvent' = Handled("delete", TRUE)
       /\ UNCHANGED editId
       /\ deleteItem(FreeSlot, id)

\* The click handler of a row's Edit button: startEdit(item)
onEdit(id) ==
  /\ ~isBusy
  /\ id \in LiveIds(getAll(items))
  /\ editId' = IF canWrite THEN id ELSE editId
  /\ UNCHANGED <<isBusy, uiEvent>>
  /\ UNCHANGED <<m4Vars, m3Vars, sortVars, pmVars>>

\* The Cancel button (disabled while busy): clearForm()
onCancel ==
  /\ ~isBusy
  /\ editId' = NoId
  /\ UNCHANGED <<isBusy, uiEvent>>
  /\ UNCHANGED <<m4Vars, m3Vars, sortVars, pmVars>>

\* A handler after its await.  A result object is shown and setBusy(false)
\* is called, after clearForm() when a save or reset succeeded; a rejected
\* promise ends the handler at the await.
handlerResume(c) ==
  /\ calls[c].pc = "done" /\ calls[c].op \in Mutations
  /\ LET r == calls[c].result
     IN IF r.how = "threw" THEN UNCHANGED <<isBusy, editId>>
        ELSE /\ isBusy' = FALSE
             /\ editId' = IF r.ok /\ calls[c].op # "deleteItem" THEN NoId ELSE editId
  /\ calls' = [calls EXCEPT ![c] = IdleCall]
  /\ UNCHANGED uiEvent
  /\ UNCHANGED <<items, skuIndex, store, adminHash, unlocked, nextId, loaded>>
  /\ UNCHANGED <<m3Vars, sortVars, pmVars>>

\* main()'s continuation after await service.init(): the UI is created
\* (or, init() having thrown, is not).
mainResume(c) ==
  /\ calls[c].pc = "done" /\ calls[c].op = "init"
  /\ Return(c)

\* The steps the database and the service take on their own
ServiceStep ==
  \/ getAllItemsExec(UI) \/ initResume(UI)
  \/ \E c \in Callers : putItemExec(c) \/ deleteItemByIdExec(c) \/ clearAndSeedExec(c)
  \/ \E c \in Callers : addItemResume(c) \/ updateItemResume(c)
  \/ \E c \in Callers : deleteItemResume(c) \/ resetDemoDataResume(c)

NextUI ==
  \/ Booting /\ init(UI)
  \/ mainResume(UI)
  \/ ServiceStep
  \/ \E d \in UiDrafts : UiReady /\ EventTurn /\ onSave(d)
  \/ UiReady /\ EventTurn /\ onResetDemo
  \/ \E id \in Ids : UiReady /\ EventTurn /\ onDelete(id)
  \/ \E id \in Ids : UiReady /\ EventTurn /\ onEdit(id)
  \/ UiReady /\ EventTurn /\ onCancel
  \/ \E c \in Callers : handlerResume(c)
  \/ UiReady /\ EventTurn /\ lock
  \/ \E pin \in Pins : UiReady /\ EventTurn /\ setAdminPin(pin)
  \/ \E pin \in Pins : UiReady /\ EventTurn /\ unlock(pin)

SpecUI == Init /\ [][NextUI]_vars

\* The event loop delivers every database event and runs every
\* continuation that is due.
FairSpecUI ==
  /\ SpecUI
  /\ WF_vars(ServiceStep)
  /\ WF_vars(\E c \in Callers : handlerResume(c))
  /\ WF_vars(mainResume(UI))


\* ------------------------------------------------------------------ C29
\* The service mutations that have been started and whose handler has not
\* yet taken the outcome
InFlight == {c \in Callers : calls[c].pc # "idle" /\ calls[c].op \in Mutations}

\* A save, delete or reset event is handled.
MutationEvent ==
  \/ \E d \in UiDrafts : onSave(d)
  \/ onResetDemo
  \/ \E id \in Ids : onDelete(id)

\* C29: with the UI as the only caller at most one service mutation is in
\* flight at any time: from the start of a UI-initiated mutation to its
\* completion every further save, delete or reset event returns at the
\* isBusy guard without calling the service.
C29_OneMutationInFlight ==
  /\ [](Cardinality(InFlight) <= 1)
  /\ [][(InFlight # {} /\ MutationEvent) =>
          (UNCHANGED calls /\ ~uiEvent'.called)]_vars

\* While an add was waiting for the database, a reset event was handled
\* and returned without calling the service.
C29_Witness ==
  /\ \E c \in Callers : calls[c].pc = "await" /\ calls[c].op = "addItem"
  /\ uiEvent = Handled("reset", FALSE)
  /\ isBusy

\* ------------------------------------------------------------------ C30
\* C30: every UI-initiated mutation that sets isBusy to true eventually
\* sets it back to false, whether the service call succeeds, returns a
\* failure result, or the storage collaborator rejects.
C30_BusyEventuallyCleared == isBusy ~> ~isBusy

====
